---- MODULE Spec2Model ----
(***************************************************************************)
(* A model of NES20Tool (Kreeblah/NES20Tool): the iNES / NES 2.0 header    *)
(* codec (NESTool/NESROM.go), the FDS disk codec (FDSTool/FDSTool.go), the *)
(* UNIF chunk codec (UNIFTool/UNIFTool.go), the matching and transplant    *)
(* engine (ProcessingTools) and the default interchange form               *)
(* (FileTools/XMLData.go).                                                 *)
(*                                                                         *)
(* Bytes are integers 0..255 and a Go []byte is a sequence of bytes.  The  *)
(* nil slice is the distinguished value NilBytes.  The library digests     *)
(* crc32.ChecksumIEEE, md5.Sum, sha1.Sum and sha256.Sum256 are modelled as *)
(* fixed-width fingerprints of the hashed byte string (a polynomial residue *)
(* and a length-and-sum residue, tagged with the algorithm); an untouched  *)
(* digest field of a Go struct is the zero digest.                         *)
(***************************************************************************)
EXTENDS Integers, Sequences, FiniteSets, TLC

VARIABLES
  nesPc,        \* position of the NES pipeline: "start", "decoded", "encoded"
  inputFile,    \* the bytes handed to DecodeNESROM
  nesFlags,     \* the option switches: enableInes, preserveTrainer, truncateRom
  romData,      \* the *NESROM returned by DecodeNESROM
  decodeErr,    \* the error returned by DecodeNESROM ("" is nil)
  romBytes,     \* the bytes returned by EncodeNESROM
  encodeErr     \* the error returned by EncodeNESROM ("" is nil)

nesVars == <<nesPc, inputFile, nesFlags, romData, decodeErr, romBytes, encodeErr>>

VARIABLES
  matchPc,         \* position of ProcessNESROMs / ProcessFDSROMs for one record
  testRom,         \* the observed record (testRomList[index])
  templateRomMap,  \* the template library: key |-> pointer to a template record
  matchOpts,       \* hashTypeTests, enableInes, truncateRoms, organizeRoms
  tempRom,         \* the template returned by the match
  matchErr,        \* the error returned by the match ("" is nil)
  updateErr        \* the error returned by the update ("" is nil)

matchVars == <<matchPc, testRom, templateRomMap, matchOpts, tempRom, matchErr, updateErr>>

VARIABLES
  callPc,      \* which library function is called, and whether it has returned
  callArgs,    \* the arguments of the call
  callResult   \* what the call returned

callVars == <<callPc, callArgs, callResult>>

vars == <<nesVars, matchVars, callVars>>

\* what an action of one part of the program leaves alone
exceptNES == <<matchVars, callVars>>

exceptMatch == <<nesVars, callVars>>

exceptCall == <<nesVars, matchVars>>

-----------------------------------------------------------------------------
(* Byte strings                                                            *)

NilBytes == <<-1>>

IsNil(s) == s = NilBytes

\* len() of a Go slice: a nil slice has length 0
LenB(s) == IF IsNil(s) THEN 0 ELSE Len(s)

\* the elements of a Go slice, as append(x, s...) sees them
Elems(s) == IF IsNil(s) THEN <<>> ELSE s

\* Go's s[lo:hi] with 0-based, half-open bounds
Slice(s, lo, hi) == SubSeq(s, lo + 1, hi)

\* Go's s[i] with a 0-based index
At(s, i) == s[i + 1]

Pow2(n) == 2 ^ n

\* (b >> k) & 1 == 1
Bit(b, k) == (b \div Pow2(k)) % 2 = 1

BoolBit(flag, k) == IF flag THEN Pow2(k) ELSE 0

RECURSIVE BitAnd(_, _)
BitAnd(a, b) ==
  IF a = 0 \/ b = 0 THEN 0
  ELSE (IF a % 2 = 1 /\ b % 2 = 1 THEN 1 ELSE 0) + 2 * BitAnd(a \div 2, b \div 2)

RECURSIVE BitOr(_, _)
BitOr(a, b) ==
  IF a = 0 THEN b
  ELSE IF b = 0 THEN a
  ELSE (IF a % 2 = 1 \/ b % 2 = 1 THEN 1 ELSE 0) + 2 * BitOr(a \div 2, b \div 2)

\* x << k in a uint8
Shl8(x, k) == (x * Pow2(k)) % 256

-----------------------------------------------------------------------------
(* uint64 arithmetic                                                       *)
(* A uint64 is four 16-bit limbs, least significant first, so that sums    *)
(* and products wrap at 2^64 as they do in Go.                             *)

Limb == Pow2(16)

\* uint64(n) of a non-negative int below 2^31
U64(n) == <<n % Limb, n \div Limb, 0, 0>>

\* the value fits a non-negative 32-bit int
U64IsSmall(x) == x[3] = 0 /\ x[4] = 0 /\ x[2] < Pow2(15)

\* the int of a value that fits one
U64ToInt(x) == x[1] + Limb * x[2]

\* int(x) < 0 for a 64-bit int: the top bit is set
U64TopBit(x) == x[4] >= Pow2(15)

\* x < y
U64Less(x, y) ==
  \/ x[4] < y[4]
  \/ x[4] = y[4] /\ x[3] < y[3]
  \/ x[4] = y[4] /\ x[3] = y[3] /\ x[2] < y[2]
  \/ x[4] = y[4] /\ x[3] = y[3] /\ x[2] = y[2] /\ x[1] < y[1]

\* x + y, wrapping at 2^64
U64Add(x, y) ==
  LET s1 == x[1] + y[1]
      s2 == x[2] + y[2] + s1 \div Limb
      s3 == x[3] + y[3] + s2 \div Limb
      s4 == x[4] + y[4] + s3 \div Limb
  IN <<s1 % Limb, s2 % Limb, s3 % Limb, s4 % Limb>>

\* x * m for 0 <= m <= 2^14, wrapping at 2^64
U64MulSmall(x, m) ==
  LET p1 == x[1] * m
      p2 == x[2] * m + p1 \div Limb
      p3 == x[3] * m + p2 \div Limb
      p4 == x[4] * m + p3 \div Limb
  IN <<p1 % Limb, p2 % Limb, p3 % Limb, p4 % Limb>>

\* quotient and remainder of x by m, 0 < m <= 2^14
U64DivMod(x, m) ==
  LET r4 == x[4] % m
      r3 == (r4 * Limb + x[3]) % m
      r2 == (r3 * Limb + x[2]) % m
  IN [q |-> <<(r2 * Limb + x[1]) \div m, (r3 * Limb + x[2]) \div m,
              (r4 * Limb + x[3]) \div m, x[4] \div m>>,
      r |-> (r2 * Limb + x[1]) % m]

\* uint64(1) << e: zero when the shift count reaches the width
U64Shl1(e) ==
  IF e >= 64 THEN <<0, 0, 0, 0>>
  ELSE <<IF e \div 16 = 0 THEN Pow2(e % 16) ELSE 0,
         IF e \div 16 = 1 THEN Pow2(e % 16) ELSE 0,
         IF e \div 16 = 2 THEN Pow2(e % 16) ELSE 0,
         IF e \div 16 = 3 THEN Pow2(e % 16) ELSE 0>>

-----------------------------------------------------------------------------
(* Digests                                                                 *)

\* the zero value of a hash field
ZeroDigest(alg) == <<alg, 0, 0>>

RECURSIVE SumRange(_, _, _)
SumRange(s, lo, hi) ==
  IF hi < lo THEN 0
  ELSE IF hi - lo < 8
       THEN LET g(i) == IF i <= hi THEN s[i] ELSE 0
            IN g(lo) + g(lo+1) + g(lo+2) + g(lo+3) + g(lo+4) + g(lo+5) + g(lo+6) + g(lo+7)
       ELSE LET mid == (lo + hi) \div 2
            IN SumRange(s, lo, mid) + SumRange(s, mid + 1, hi)

RECURSIVE PowMod(_, _, _)
PowMod(b, k, p) ==
  IF k = 0 THEN 1
  ELSE LET h == PowMod(b, k \div 2, p)
       IN IF k % 2 = 0 THEN (h * h) % p ELSE (((h * h) % p) * b) % p

\* s[lo] * b^(hi-lo) + ... + s[hi], modulo p
RECURSIVE PolyRange(_, _, _, _, _)
PolyRange(s, lo, hi, b, p) ==
  IF hi < lo THEN 0
  ELSE IF hi - lo < 8
       THEN LET g(acc, i) == IF i <= hi THEN (acc * b + s[i]) % p ELSE acc
            IN g(g(g(g(g(g(g(g(0, lo), lo+1), lo+2), lo+3), lo+4), lo+5), lo+6), lo+7)
       ELSE LET mid == (lo + hi) \div 2
            IN (PolyRange(s, lo, mid, b, p) * PowMod(b, hi - mid, p)
                  + PolyRange(s, mid + 1, hi, b, p)) % p

\* a residue of the byte string with a leading 1, so that the length counts
Residue(data, b, p) == (PowMod(b, Len(data), p) + PolyRange(data, 1, Len(data), b, p)) % p

Fingerprint(data) ==
  <<Residue(data, 257, 46337), (Len(data) + SumRange(data, 1, Len(data))) % 46327>>

\* The four library digests of a byte string.  The CRC-32 of the empty string
\* is 0, the zero value of a uint32 field.
TaggedDigests(fp, empty) ==
  [CRC32 |-> IF empty THEN ZeroDigest("CRC32") ELSE <<"CRC32", fp[1], fp[2]>>,
   MD5 |-> <<"MD5", fp[1], fp[2]>>,
   SHA1 |-> <<"SHA1", fp[1], fp[2]>>,
   SHA256 |-> <<"SHA256", fp[1], fp[2]>>]

Digests(data) == TaggedDigests(Fingerprint(data), data = <<>>)

Digest(alg, data) == Digests(data)[alg]

\* calculateSum16: the low 16 bits of the byte sum; an error for a nil segment
calculateSum16(inputData) ==
  IF IsNil(inputData)
  THEN [sum |-> 0, err |-> "Cannot calculate sum16 for a null segment."]
  ELSE [sum |-> SumRange(inputData, 1, Len(inputData)) % 65536, err |-> ""]

-----------------------------------------------------------------------------
(* NESTool/NESROM.go: the record types                                     *)

NES_HEADER_MAGIC == <<78, 69, 83, 26>>

TrainerSize == 512

PRGBlockSize == 16 * 1024

CHRBlockSize == 8 * 1024

\* a nil *NES20Header or *NES10Header
NilHeader == [nil |-> TRUE]

\* &NES20Header{}
NewNES20Header ==
  [PRGROMSize |-> 0, PRGROMCalculatedSize |-> 0, PRGROMSum16 |-> 0,
   PRGROMCRC32 |-> ZeroDigest("CRC32"), PRGROMMD5 |-> ZeroDigest("MD5"),
   PRGROMSHA1 |-> ZeroDigest("SHA1"), PRGROMSHA256 |-> ZeroDigest("SHA256"),
   PRGROMSizeExponent |-> 0, PRGROMSizeMultiplier |-> 0,
   CHRROMSize |-> 0, CHRROMCalculatedSize |-> 0, CHRROMSum16 |-> 0,
   CHRROMCRC32 |-> ZeroDigest("CRC32"), CHRROMMD5 |-> ZeroDigest("MD5"),
   CHRROMSHA1 |-> ZeroDigest("SHA1"), CHRROMSHA256 |-> ZeroDigest("SHA256"),
   CHRROMSizeExponent |-> 0, CHRROMSizeMultiplier |-> 0,
   MiscROMCalculatedSize |-> 0, MiscROMSum16 |-> 0,
   MiscROMCRC32 |-> ZeroDigest("CRC32"), MiscROMMD5 |-> ZeroDigest("MD5"),
   MiscROMSHA1 |-> ZeroDigest("SHA1"), MiscROMSHA256 |-> ZeroDigest("SHA256"),
   TrainerCalculatedSize |-> 0, TrainerSum16 |-> 0,
   TrainerCRC32 |-> ZeroDigest("CRC32"), TrainerMD5 |-> ZeroDigest("MD5"),
   TrainerSHA1 |-> ZeroDigest("SHA1"), TrainerSHA256 |-> ZeroDigest("SHA256"),
   PRGRAMSize |-> 0, PRGNVRAMSize |-> 0, CHRRAMSize |-> 0, CHRNVRAMSize |-> 0,
   MirroringType |-> FALSE, Battery |-> FALSE, Trainer |-> FALSE,
   FourScreen |-> FALSE, ConsoleType |-> 0, Mapper |-> 0, SubMapper |-> 0,
   CPUPPUTiming |-> 0, VsHardwareType |-> 0, VsPPUType |-> 0,
   ExtendedConsoleType |-> 0, MiscROMs |-> 0, DefaultExpansion |-> 0]

\* &NES10Header{}
NewNES10Header ==
  [PRGROMSize |-> 0, PRGROMCalculatedSize |-> 0, PRGROMSum16 |-> 0,
   PRGROMCRC32 |-> ZeroDigest("CRC32"), PRGROMMD5 |-> ZeroDigest("MD5"),
   PRGROMSHA1 |-> ZeroDigest("SHA1"), PRGROMSHA256 |-> ZeroDigest("SHA256"),
   CHRROMSize |-> 0, CHRROMCalculatedSize |-> 0, CHRROMSum16 |-> 0,
   CHRROMCRC32 |-> ZeroDigest("CRC32"), CHRROMMD5 |-> ZeroDigest("MD5"),
   CHRROMSHA1 |-> ZeroDigest("SHA1"), CHRROMSHA256 |-> ZeroDigest("SHA256"),
   TrainerCalculatedSize |-> 0, TrainerSum16 |-> 0,
   TrainerCRC32 |-> ZeroDigest("CRC32"), TrainerMD5 |-> ZeroDigest("MD5"),
   TrainerSHA1 |-> ZeroDigest("SHA1"), TrainerSHA256 |-> ZeroDigest("SHA256"),
   MirroringType |-> FALSE, Battery |-> FALSE, Trainer |-> FALSE,
   FourScreen |-> FALSE, Mapper |-> 0, VsUnisystem |-> FALSE,
   PlayChoice10 |-> FALSE, PRGRAMSize |-> 0, TVSystem |-> FALSE]

\* &NESROM{}
NewNESROM ==
  [Name |-> "", Filename |-> "", RelativePath |-> "", Size |-> 0,
   CRC32 |-> ZeroDigest("CRC32"), MD5 |-> ZeroDigest("MD5"),
   SHA1 |-> ZeroDigest("SHA1"), SHA256 |-> ZeroDigest("SHA256"),
   Header20 |-> NilHeader, Header10 |-> NilHeader,
   ROMData |-> NilBytes, TrainerData |-> NilBytes, PRGROMData |-> NilBytes,
   CHRROMData |-> NilBytes, MiscROMData |-> NilBytes, HeaderData |-> NilBytes,
   \* where CHRROMData starts in the array PRGROMData is a slice of, -1 when
   \* the two slices do not share an array
   CHRROMDataStart |-> -1]

\* a nil *NESROM
NilROM == [nil |-> TRUE]

-----------------------------------------------------------------------------
(* NESTool/NESROM.go: helpers                                              *)

\* getStrippedRom: the ROM without the header, the header and the trainer
getStrippedRom(file) ==
  LET fileSize == Len(file) IN
  IF fileSize < 16
  THEN [rom |-> file, header |-> NilBytes, trainer |-> NilBytes,
        err |-> "File too small to be a headered NES ROM."]
  ELSE IF Slice(file, 0, 4) # NES_HEADER_MAGIC
  THEN [rom |-> file, header |-> NilBytes, trainer |-> NilBytes,
        err |-> "Unable to find NES magic."]
  ELSE LET hasTrainer == Bit(At(file, 6), 2) IN
       IF hasTrainer /\ fileSize < 16 + TrainerSize
       THEN [rom |-> file, header |-> NilBytes, trainer |-> NilBytes,
             err |-> "Header indicates trainer data, but file too small for one."]
       ELSE IF ~hasTrainer
       THEN [rom |-> Slice(file, 16, fileSize), header |-> Slice(file, 0, 16),
             trainer |-> NilBytes, err |-> ""]
       ELSE [rom |-> Slice(file, 16 + TrainerSize, fileSize),
             header |-> Slice(file, 0, 16),
             trainer |-> Slice(file, 16, 16 + TrainerSize), err |-> ""]

\* len(inputData) < int(prgRomSize+chrRomSize): the sum has wrapped at 2^64 and
\* is read as a signed 64-bit int, so a sum with its top bit set is negative
SplitTooShort(length, total) == ~U64TopBit(total) /\ U64Less(U64(length), total)

\* inputData[0:prgRomSize] and inputData[prgRomSize:prgRomSize+chrRomSize] are
\* out of range: a bound above the capacity, or the low bound above the high one
\* (the capacity of a file's bytes stays far below 2^63, so a sum that passed
\* the length test with its top bit set is above it)
SplitOutOfRange(length, prgRomSize, total) ==
  \/ U64Less(U64(length), total)
  \/ U64Less(total, prgRomSize)

\* the three slices getSplitRomData returns
SplitAt(inputData, prgEnd, chrEnd) ==
  [prg |-> Slice(inputData, 0, prgEnd),
   chr |-> Slice(inputData, prgEnd, chrEnd),
   misc |-> IF chrEnd < Len(inputData)
            THEN Slice(inputData, chrEnd, Len(inputData))
            ELSE <<>>,
   err |-> ""]

\* getSplitRomData: PRG, CHR and misc ROM data of the headerless ROM
getSplitRomData(inputData, prgRomSize, chrRomSize) ==
  IF IsNil(inputData)
  THEN [prg |-> NilBytes, chr |-> NilBytes, misc |-> NilBytes,
        err |-> "Cannot extract PRGROM and/or CHRROM data from a null segment."]
  ELSE IF SplitTooShort(Len(inputData), U64Add(prgRomSize, chrRomSize))
  THEN [prg |-> NilBytes, chr |-> NilBytes, misc |-> NilBytes,
        err |-> "Invalid PRGROM and/or CHRROM size(s) detected during extraction."]
  ELSE IF SplitOutOfRange(Len(inputData), prgRomSize, U64Add(prgRomSize, chrRomSize))
  THEN [prg |-> NilBytes, chr |-> NilBytes, misc |-> NilBytes,
        err |-> "panic: slice bounds out of range"]
  ELSE SplitAt(inputData, U64ToInt(prgRomSize),
               U64ToInt(U64Add(prgRomSize, chrRomSize)))

\* (1 << exponent) * uint64((multiplier*2)+1)
ExponentSize(exponent, multiplier) ==
  U64MulSmall(U64Shl1(exponent), (multiplier * 2) + 1)

\* the per-segment fields of a header set to a sum and four digests
WithSegmentChecksums(h, seg, sum, d) ==
  IF seg = "PRG"
  THEN [h EXCEPT !.PRGROMSum16 = sum, !.PRGROMCRC32 = d.CRC32, !.PRGROMMD5 = d.MD5,
                 !.PRGROMSHA1 = d.SHA1, !.PRGROMSHA256 = d.SHA256]
  ELSE IF seg = "CHR"
  THEN [h EXCEPT !.CHRROMSum16 = sum, !.CHRROMCRC32 = d.CRC32, !.CHRROMMD5 = d.MD5,
                 !.CHRROMSHA1 = d.SHA1, !.CHRROMSHA256 = d.SHA256]
  ELSE IF seg = "Misc"
  THEN [h EXCEPT !.MiscROMSum16 = sum, !.MiscROMCRC32 = d.CRC32, !.MiscROMMD5 = d.MD5,
                 !.MiscROMSHA1 = d.SHA1, !.MiscROMSHA256 = d.SHA256]
  ELSE [h EXCEPT !.TrainerSum16 = sum, !.TrainerCRC32 = d.CRC32, !.TrainerMD5 = d.MD5,
                 !.TrainerSHA1 = d.SHA1, !.TrainerSHA256 = d.SHA256]

\* the per-segment digests UpdateChecksums stores in a header, for a segment
\* that is present
SegmentChecksums(h, seg, present, data) ==
  IF present
  THEN WithSegmentChecksums(h, seg, calculateSum16(data).sum, Digests(data))
  ELSE h

\* the per-segment digests of one header of a record
HeaderChecksums(h, nesRom, withMisc) ==
  SegmentChecksums(
    SegmentChecksums(
      SegmentChecksums(
        SegmentChecksums(h, "PRG", ~IsNil(nesRom.PRGROMData), nesRom.PRGROMData),
        "CHR", LenB(nesRom.CHRROMData) > 0, nesRom.CHRROMData),
      "Misc", withMisc /\ LenB(nesRom.MiscROMData) > 0, nesRom.MiscROMData),
    "Trainer", LenB(nesRom.TrainerData) > 0, nesRom.TrainerData)

\* the whole-image digests of a record set to four digests
WithWholeChecksums(nesRom, d) ==
  [nesRom EXCEPT !.CRC32 = d.CRC32, !.MD5 = d.MD5, !.SHA1 = d.SHA1, !.SHA256 = d.SHA256]

\* UpdateChecksums: the whole-image digests from ROMData, the per-segment
\* digests from the segments that are present
UpdateChecksums(nesRom) ==
  [(IF ~IsNil(nesRom.ROMData)
    THEN WithWholeChecksums(nesRom, Digests(nesRom.ROMData)) ELSE nesRom)
   EXCEPT !.Header20 = IF @ # NilHeader THEN HeaderChecksums(@, nesRom, TRUE) ELSE @,
          !.Header10 = IF @ # NilHeader THEN HeaderChecksums(@, nesRom, FALSE) ELSE @]

-----------------------------------------------------------------------------
(* NESTool/NESROM.go: DecodeNESROM                                         *)

\* the NES 2.0 arm of DecodeNESROM: the header fields read from the descriptor
DecodeHeader20(file, preserveTrainer, miscRomData) ==
  LET prgLinear == At(file, 9) % 16 # 15
      chrLinear == At(file, 9) \div 16 # 15
      PRGROMSize == IF prgLinear THEN At(file, 4) + 256 * (At(file, 9) % 16) ELSE 0
      CHRROMSize == IF chrLinear THEN At(file, 5) + 256 * (At(file, 9) \div 16) ELSE 0
      consoleType == At(file, 7) % 4
      trainer == preserveTrainer /\ Bit(At(file, 6), 2)
  IN [NewNES20Header EXCEPT
        !.PRGROMSize = PRGROMSize,
        !.PRGROMSizeExponent = IF prgLinear THEN 0 ELSE At(file, 4) \div 4,
        !.PRGROMSizeMultiplier = IF prgLinear THEN 0 ELSE At(file, 4) % 4,
        !.PRGROMCalculatedSize =
            IF prgLinear THEN PRGBlockSize * PRGROMSize
            ELSE U64ToInt(ExponentSize(At(file, 4) \div 4, At(file, 4) % 4)),
        !.CHRROMSize = CHRROMSize,
        !.CHRROMSizeExponent = IF chrLinear THEN 0 ELSE At(file, 5) \div 4,
        !.CHRROMSizeMultiplier = IF chrLinear THEN 0 ELSE At(file, 5) % 4,
        !.CHRROMCalculatedSize =
            IF chrLinear THEN CHRBlockSize * CHRROMSize
            ELSE U64ToInt(ExponentSize(At(file, 5) \div 4, At(file, 5) % 4)),
        !.MiscROMCalculatedSize = LenB(miscRomData),
        !.PRGRAMSize = At(file, 10) % 16,
        !.PRGNVRAMSize = At(file, 10) \div 16,
        !.CHRRAMSize = At(file, 11) % 16,
        !.CHRNVRAMSize = At(file, 11) \div 16,
        !.MirroringType = Bit(At(file, 6), 0),
        !.Battery = Bit(At(file, 6), 1),
        !.Trainer = trainer,
        !.TrainerCalculatedSize = IF trainer THEN TrainerSize ELSE 0,
        !.FourScreen = Bit(At(file, 6), 3),
        !.ConsoleType = consoleType,
        !.Mapper = (At(file, 6) \div 16) + 16 * (At(file, 7) \div 16)
                     + 256 * (At(file, 8) % 16),
        !.SubMapper = At(file, 8) \div 16,
        !.CPUPPUTiming = At(file, 12) % 4,
        !.VsHardwareType = IF consoleType = 1 THEN At(file, 13) \div 16 ELSE 0,
        !.VsPPUType = IF consoleType = 1 THEN At(file, 13) % 16 ELSE 0,
        !.ExtendedConsoleType = IF consoleType = 3 THEN At(file, 13) % 16 ELSE 0,
        !.MiscROMs = At(file, 14) % 4,
        !.DefaultExpansion = At(file, 15) % 64]

\* the iNES 1.0 arm of DecodeNESROM
DecodeHeader10(file, preserveTrainer) ==
  LET trainer == preserveTrainer /\ Bit(At(file, 6), 2)
  IN [NewNES10Header EXCEPT
        !.PRGROMSize = At(file, 4),
        !.PRGROMCalculatedSize = PRGBlockSize * At(file, 4),
        !.CHRROMSize = At(file, 5),
        !.CHRROMCalculatedSize = CHRBlockSize * At(file, 5),
        !.MirroringType = Bit(At(file, 6), 0),
        !.Battery = Bit(At(file, 6), 1),
        !.Trainer = trainer,
        !.TrainerCalculatedSize = IF trainer THEN TrainerSize ELSE 0,
        !.FourScreen = Bit(At(file, 6), 3),
        !.Mapper = (At(file, 6) \div 16) + 16 * (At(file, 7) \div 16),
        !.VsUnisystem = Bit(At(file, 7), 0),
        !.PlayChoice10 = Bit(At(file, 7), 1),
        !.PRGRAMSize = At(file, 8),
        !.TVSystem = Bit(At(file, 9), 0)]

\* byte 7 carries the NES 2.0 signature: bit 3 set and bit 2 clear
HasNES20Signature(file) == Bit(At(file, 7), 3) /\ ~Bit(At(file, 7), 2)

\* the PRG and CHR byte counts DecodeNESROM reads from an NES 2.0 descriptor
PRGSize20(file) ==
  IF At(file, 9) % 16 # 15
  THEN U64MulSmall(U64(At(file, 4) + 256 * (At(file, 9) % 16)), PRGBlockSize)
  ELSE ExponentSize(At(file, 4) \div 4, At(file, 4) % 4)

CHRSize20(file) ==
  IF At(file, 9) \div 16 # 15
  THEN U64MulSmall(U64(At(file, 5) + 256 * (At(file, 9) \div 16)), CHRBlockSize)
  ELSE ExponentSize(At(file, 5) \div 4, At(file, 5) % 4)

\* the record DecodeNESROM builds before it reads the descriptor
StrippedROM(stripped, preserveTrainer, relativeLocation) ==
  WithWholeChecksums(
    [NewNESROM EXCEPT
       !.RelativePath = relativeLocation,
       !.Size = Len(stripped.rom),
       !.ROMData = stripped.rom,
       !.HeaderData = stripped.header,
       !.TrainerData = IF preserveTrainer THEN stripped.trainer ELSE NilBytes],
    Digests(stripped.rom))

\* the NES 2.0 arm of DecodeNESROM after the payload was split
Decoded20(file, rom0, split, preserveTrainer) ==
  IF split.err # ""
  THEN [rom |-> rom0, err |-> split.err]
  ELSE [rom |-> UpdateChecksums(
                  [rom0 EXCEPT !.PRGROMData = split.prg,
                               !.CHRROMData = split.chr,
                               !.CHRROMDataStart = U64ToInt(PRGSize20(file)),
                               !.MiscROMData = split.misc,
                               !.Header20 = DecodeHeader20(file, preserveTrainer, split.misc)]),
        err |-> ""]

\* the iNES 1.0 arm of DecodeNESROM after the payload was split
Decoded10(file, rom0, split, preserveTrainer) ==
  IF split.err # ""
  THEN [rom |-> rom0, err |-> split.err]
  ELSE [rom |-> UpdateChecksums(
                  [rom0 EXCEPT !.PRGROMData = split.prg,
                               !.CHRROMData = split.chr,
                               !.CHRROMDataStart = PRGBlockSize * At(file, 4),
                               !.MiscROMData = NilBytes,
                               !.Header10 = DecodeHeader10(file, preserveTrainer)]),
        err |-> ""]

\* DecodeNESROM after getStrippedRom, whose error is dropped
DecodeStripped(file, rom0, enableInes, preserveTrainer) ==
  IF Len(file) < 16
  THEN [rom |-> rom0, err |-> "File too small to be a headered NES ROM."]
  ELSE IF Slice(file, 0, 4) # NES_HEADER_MAGIC
  THEN [rom |-> rom0, err |-> "Unable to find NES magic."]
  ELSE IF ~HasNES20Signature(file) /\ ~enableInes
  THEN [rom |-> rom0, err |-> "Not an NES 2.0 ROM."]
  ELSE IF HasNES20Signature(file)
  THEN Decoded20(file, rom0,
                 getSplitRomData(rom0.ROMData, PRGSize20(file), CHRSize20(file)),
                 preserveTrainer)
  ELSE Decoded10(file, rom0,
                 getSplitRomData(rom0.ROMData, U64(PRGBlockSize * At(file, 4)),
                                 U64(CHRBlockSize * At(file, 5))),
                 preserveTrainer)

\* DecodeNESROM: the record and the error ("" is nil) it returns
DecodeNESROM(file, enableInes, preserveTrainer, relativeLocation) ==
  DecodeStripped(file,
                 StrippedROM(getStrippedRom(file), preserveTrainer, relativeLocation),
                 enableInes, preserveTrainer)

-----------------------------------------------------------------------------
(* NESTool/NESROM.go: EncodeNESROMHeader and EncodeNESROM                  *)

\* byte 13 written from the Vs. and extended-type fields whatever the console type
Byte13Unguarded(h) ==
  BitOr(BitOr(Shl8(h.VsHardwareType % 16, 4), h.VsPPUType % 16),
        h.ExtendedConsoleType % 16)

\* byte 13 of an NES 2.0 descriptor
Byte13(h) ==
  IF h.ConsoleType = 1
  THEN BitOr(Shl8(h.VsHardwareType % 16, 4), h.VsPPUType % 16)
  ELSE IF h.ConsoleType = 3 THEN h.ExtendedConsoleType % 16 ELSE 0

\* the sixteen descriptor bytes of a record with an NES 2.0 header
EncodeHeader20Bytes(romModel, preserveTrainer) ==
  LET h == romModel.Header20
      prgLinear == h.PRGROMSize > 0
      chrLinear == h.CHRROMSize > 0
      chrExp == h.CHRROMSizeExponent > 0 \/ h.CHRROMSizeMultiplier > 0
      b4 == IF prgLinear THEN h.PRGROMSize % 256
            ELSE BitOr(Shl8(h.PRGROMSizeExponent, 2), h.PRGROMSizeMultiplier)
      b9lo == IF prgLinear THEN (h.PRGROMSize \div 256) % 16 ELSE 15
      b5 == IF chrLinear THEN h.CHRROMSize % 256
            ELSE IF chrExp
                 THEN BitOr(Shl8(h.CHRROMSizeExponent, 2), h.CHRROMSizeMultiplier)
                 ELSE 0
      b9hi == IF chrLinear THEN (h.CHRROMSize \div 256) % 16
              ELSE IF chrExp THEN 15 ELSE 0
      mapperLo == h.Mapper % 256
      mapperHi == h.Mapper \div 256
      trainerBit == preserveTrainer /\ h.Trainer /\ LenB(romModel.TrainerData) = TrainerSize
      b6 == BoolBit(h.MirroringType, 0) + BoolBit(h.Battery, 1) + BoolBit(trainerBit, 2)
              + BoolBit(h.FourScreen, 3) + 16 * (mapperLo % 16)
      b7 == BitOr(BitOr(16 * (mapperLo \div 16), h.ConsoleType % 4), 8)
      b8 == BitOr(mapperHi % 16, Shl8(h.SubMapper % 16, 4))
      b10 == BitOr(h.PRGRAMSize, Shl8(h.PRGNVRAMSize, 4))
      b11 == BitOr(h.CHRRAMSize, Shl8(h.CHRNVRAMSize, 4))
      b13 == Byte13(h)
  IN NES_HEADER_MAGIC \o
     <<b4, b5, b6, b7, b8, b9lo + 16 * b9hi, b10, b11, h.CPUPPUTiming, b13,
       h.MiscROMs % 4, h.DefaultExpansion % 64>>

\* the sixteen descriptor bytes of a record with an iNES 1.0 header
EncodeHeader10Bytes(romModel, preserveTrainer) ==
  LET h == romModel.Header10
      trainerBit == preserveTrainer /\ h.Trainer /\ LenB(romModel.TrainerData) = TrainerSize
      b6 == BoolBit(h.MirroringType, 0) + BoolBit(h.Battery, 1) + BoolBit(trainerBit, 2)
              + BoolBit(h.FourScreen, 3) + 16 * (h.Mapper % 16)
      b7 == BoolBit(h.VsUnisystem, 0) + BoolBit(h.PlayChoice10, 1) + 16 * (h.Mapper \div 16)
  IN NES_HEADER_MAGIC \o
     <<h.PRGROMSize, h.CHRROMSize, b6, b7, h.PRGRAMSize,
       IF h.TVSystem THEN 1 ELSE 0, 0, 0, 0, 0, 0, 0>>

\* EncodeNESROMHeader
EncodeNESROMHeader(romModel, enableInes, preserveTrainer) ==
  IF romModel.Header20 = NilHeader /\ (romModel.Header10 = NilHeader \/ ~enableInes)
  THEN [bytes |-> NilBytes, err |-> "Unable to find valid header on ROM model."]
  ELSE IF romModel.Header20 # NilHeader
  THEN [bytes |-> EncodeHeader20Bytes(romModel, preserveTrainer), err |-> ""]
  ELSE [bytes |-> EncodeHeader10Bytes(romModel, preserveTrainer), err |-> ""]

\* the run-time panics of the Go program are reported as errors of this form
Panic(what) == [bytes |-> NilBytes, err |-> "panic: " \o what]

\* the trainer is written only when it is preserved, flagged and 512 bytes long
WritesTrainer(romModel, preserveTrainer) ==
  ~ ( \/ ~preserveTrainer
      \/ (romModel.Header20 # NilHeader /\ ~romModel.Header20.Trainer)
      \/ (romModel.Header10 # NilHeader /\ ~romModel.Header10.Trainer)
      \/ (~IsNil(romModel.TrainerData) /\ Len(romModel.TrainerData) # TrainerSize) )

\* EncodeNESROM
EncodeNESROM(romModel, enableInes, truncateRom, preserveTrainer) ==
  LET header == EncodeNESROMHeader(romModel, enableInes, preserveTrainer)
      body(rawRomBytes) ==
        IF WritesTrainer(romModel, preserveTrainer)
        THEN Elems(romModel.TrainerData) \o Elems(rawRomBytes)
        ELSE Elems(rawRomBytes)
  IN
  IF header.err # "" THEN header
  ELSE IF romModel.Header20 # NilHeader
  THEN IF truncateRom
       THEN LET n == romModel.Header20.PRGROMCalculatedSize
                       + romModel.Header20.CHRROMCalculatedSize
            IN IF n > LenB(romModel.ROMData)
               THEN Panic("slice bounds out of range")
               ELSE [bytes |-> header.bytes \o body(Slice(romModel.ROMData, 0, n)),
                     err |-> ""]
       ELSE [bytes |-> header.bytes \o body(romModel.ROMData), err |-> ""]
  ELSE IF truncateRom
       THEN Panic("nil pointer dereference")     \* romModel.Header20.MiscROMs
       ELSE [bytes |-> header.bytes \o body(romModel.ROMData), err |-> ""]

-----------------------------------------------------------------------------
(* NESTool/NESROM.go: FactorRomSize and UpdateSizes                        *)

ROM_TYPE_PRGROM == 0

ROM_TYPE_CHRROM == 1

PRG_CANONICAL_SIZE_ROM == 0

PRG_CANONICAL_SIZE_CALCULATED == 1

PRG_CANONICAL_SIZE_FACTORED == 2

CHR_CANONICAL_SIZE_ROM == 0

CHR_CANONICAL_SIZE_CALCULATED == 1

CHR_CANONICAL_SIZE_FACTORED == 2

\* the loop "for tempSize > 1 { tempSize = tempSize >> 1; sizeExponent++ }"
RECURSIVE ShiftsToOne(_)
ShiftsToOne(tempSize) ==
  IF U64Less(U64(1), tempSize) THEN 1 + ShiftsToOne(U64DivMod(tempSize, 2).q) ELSE 0

\* the multiplier FactorRomSize tries: 3, then 5, then 7, else 1
FactorMultiplier(romSize) ==
  IF U64DivMod(romSize, 3).r = 0 THEN 3
  ELSE IF U64DivMod(romSize, 5).r = 0 THEN 5
  ELSE IF U64DivMod(romSize, 7).r = 0 THEN 7
  ELSE 1

\* the exponent form FactorRomSize returns for a multiplier
FactoredExponentForm(romSize, sizeMultiplier) ==
  [size |-> 0,
   exponent |-> ShiftsToOne(U64DivMod(romSize, sizeMultiplier).q),
   multiplier |-> (sizeMultiplier - 1) \div 2]

\* FactorRomSize: the linear count (a uint16), the exponent and the multiplier
\* (the callers pass ROM_TYPE_PRGROM or ROM_TYPE_CHRROM)
FactorRomSize(romSize, romType) ==
  IF romSize = U64(0)
  THEN [size |-> 0, exponent |-> 0, multiplier |-> 0]
  ELSE IF U64DivMod(romSize, IF romType = ROM_TYPE_PRGROM THEN PRGBlockSize
                             ELSE CHRBlockSize).r = 0
  THEN [size |-> U64DivMod(romSize, IF romType = ROM_TYPE_PRGROM THEN PRGBlockSize
                                    ELSE CHRBlockSize).q[1],   \* uint16(...)
        exponent |-> 0, multiplier |-> 0]
  ELSE FactoredExponentForm(romSize, FactorMultiplier(romSize))

\* the three size fields of a header set from a factored size
WithPRGFactor(h, f) ==
  [h EXCEPT !.PRGROMSize = f.size, !.PRGROMSizeExponent = f.exponent,
            !.PRGROMSizeMultiplier = f.multiplier]

WithCHRFactor(h, f) ==
  [h EXCEPT !.CHRROMSize = f.size, !.CHRROMSizeExponent = f.exponent,
            !.CHRROMSizeMultiplier = f.multiplier]

\* UpdateSizes on the PRG fields of an NES 2.0 header (a canonical size that is
\* none of the three constants changes nothing)
PRGSizes20(h, prgRomData, prgCanonicalSize) ==
  IF prgCanonicalSize = PRG_CANONICAL_SIZE_ROM /\ ~IsNil(prgRomData)
  THEN WithPRGFactor([h EXCEPT !.PRGROMCalculatedSize = Len(prgRomData)],
                     FactorRomSize(U64(Len(prgRomData)), ROM_TYPE_PRGROM))
  ELSE IF prgCanonicalSize = PRG_CANONICAL_SIZE_CALCULATED
  THEN WithPRGFactor(h, FactorRomSize(U64(h.PRGROMCalculatedSize), ROM_TYPE_PRGROM))
  ELSE IF prgCanonicalSize = PRG_CANONICAL_SIZE_FACTORED
  THEN [h EXCEPT !.PRGROMCalculatedSize =
                   U64ToInt(ExponentSize(h.PRGROMSizeExponent, h.PRGROMSizeMultiplier))]
  ELSE h

CHRSizes20(h, chrRomData, chrCanonicalSize) ==
  IF chrCanonicalSize = CHR_CANONICAL_SIZE_ROM /\ ~IsNil(chrRomData)
  THEN WithCHRFactor([h EXCEPT !.CHRROMCalculatedSize = Len(chrRomData)],
                     FactorRomSize(U64(Len(chrRomData)), ROM_TYPE_CHRROM))
  ELSE IF chrCanonicalSize = CHR_CANONICAL_SIZE_CALCULATED
  THEN WithCHRFactor(h, FactorRomSize(U64(h.CHRROMCalculatedSize), ROM_TYPE_CHRROM))
  ELSE IF chrCanonicalSize = CHR_CANONICAL_SIZE_FACTORED
  THEN [h EXCEPT !.CHRROMCalculatedSize =
                   U64ToInt(ExponentSize(h.CHRROMSizeExponent, h.CHRROMSizeMultiplier))]
  ELSE h

\* UpdateSizes on the misc and trainer sizes of a header
TrainerSizeOf(h, nesRom) ==
  IF h.Trainer /\ ~IsNil(nesRom.TrainerData) /\ Len(nesRom.TrainerData) = TrainerSize
  THEN TrainerSize ELSE 0

MiscSizeOf(h, nesRom) ==
  IF h.MiscROMs > 0 /\ ~IsNil(nesRom.MiscROMData) /\ Len(nesRom.MiscROMData) > 0
  THEN Len(nesRom.MiscROMData) ELSE 0

\* UpdateSizes on an NES 2.0 header
Sizes20(h, nesRom, prgCanonicalSize, chrCanonicalSize) ==
  [CHRSizes20(PRGSizes20(h, nesRom.PRGROMData, prgCanonicalSize),
              nesRom.CHRROMData, chrCanonicalSize)
     EXCEPT !.MiscROMCalculatedSize = MiscSizeOf(h, nesRom),
            !.TrainerCalculatedSize = TrainerSizeOf(h, nesRom)]

\* UpdateSizes on the PRG fields of an iNES 1.0 header
PRGSizes10(h, prgRomData, prgCanonicalSize) ==
  IF prgCanonicalSize = PRG_CANONICAL_SIZE_ROM /\ ~IsNil(prgRomData)
  THEN [h EXCEPT !.PRGROMCalculatedSize = Len(prgRomData),
                 !.PRGROMSize = (Len(prgRomData) \div PRGBlockSize) % 256]
  ELSE IF prgCanonicalSize = PRG_CANONICAL_SIZE_CALCULATED
  THEN [h EXCEPT !.PRGROMSize = (h.PRGROMCalculatedSize \div PRGBlockSize) % 256]
  ELSE IF prgCanonicalSize = PRG_CANONICAL_SIZE_FACTORED
  THEN [h EXCEPT !.PRGROMCalculatedSize = h.PRGROMSize * PRGBlockSize]
  ELSE h

CHRSizes10(h, chrRomData, chrCanonicalSize) ==
  IF chrCanonicalSize = CHR_CANONICAL_SIZE_ROM /\ ~IsNil(chrRomData)
  THEN [h EXCEPT !.CHRROMCalculatedSize = Len(chrRomData),
                 !.CHRROMSize = (Len(chrRomData) \div CHRBlockSize) % 256]
  ELSE IF chrCanonicalSize = CHR_CANONICAL_SIZE_CALCULATED
  THEN [h EXCEPT !.CHRROMSize = (h.CHRROMCalculatedSize \div CHRBlockSize) % 256]
  ELSE IF chrCanonicalSize = CHR_CANONICAL_SIZE_FACTORED
  THEN [h EXCEPT !.CHRROMCalculatedSize = h.CHRROMSize * CHRBlockSize]
  ELSE h

\* UpdateSizes on an iNES 1.0 header
Sizes10(h, nesRom, prgCanonicalSize, chrCanonicalSize) ==
  [CHRSizes10(PRGSizes10(h, nesRom.PRGROMData, prgCanonicalSize),
              nesRom.CHRROMData, chrCanonicalSize)
     EXCEPT !.TrainerCalculatedSize = TrainerSizeOf(h, nesRom)]

\* UpdateSizes: the record it leaves behind (the error it returns is always nil)
UpdateSizes(nesRom, prgCanonicalSize, chrCanonicalSize) ==
  [nesRom EXCEPT
     !.Size = IF ~IsNil(nesRom.ROMData) THEN Len(nesRom.ROMData) ELSE @,
     !.Header20 = IF @ # NilHeader
                  THEN Sizes20(@, nesRom, prgCanonicalSize, chrCanonicalSize) ELSE @,
     !.Header10 = IF @ # NilHeader
                  THEN Sizes10(@, nesRom, prgCanonicalSize, chrCanonicalSize) ELSE @]

-----------------------------------------------------------------------------
(* The NES files handed to the codec                                       *)

\* largest linear PRG and CHR block count of a generated file
MaxLinear == 1

\* largest exponent of an exponent-form size of a generated file
MaxExponent == 1

\* largest multiplier field of an exponent-form size of a generated file
MaxMultiplier == 1

\* largest number of bytes after PRG and CHR in a generated file
MaxMisc == 1

\* n bytes that differ from their neighbours
Fill(n, seed) == [i \in 1..n |-> (i * 7 + seed) % 256]

\* a size field of the descriptor: a linear block count or an exponent form
SizeForms ==
  [lin : {TRUE}, n : 0..MaxLinear, e : {0}, m : {0}]
    \cup [lin : {FALSE}, n : {0}, e : 0..MaxExponent, m : 0..MaxMultiplier]

SizeByte(f) == IF f.lin THEN f.n % 256 ELSE f.e * 4 + f.m

SizeNibble(f) == IF f.lin THEN f.n \div 256 ELSE 15

SizeBytes(f, block) == IF f.lin THEN block * f.n ELSE U64ToInt(ExponentSize(f.e, f.m))

\* descriptor bytes 6 (without the trainer bit), 7, 8 and 10..15
HeaderProfiles ==
  { [b6 |-> 0,   b7 |-> 8,   b8 |-> 0,   b10 |-> 0,   b11 |-> 0,   b12 |-> 0,
     b13 |-> 0,  b14 |-> 0,  b15 |-> 0],
    \* Vs. System, mapper 0x1A5, submapper 3, RAM sizes, timing, misc ROMs
    [b6 |-> 83,  b7 |-> 169, b8 |-> 49,  b10 |-> 151, b11 |-> 72,  b12 |-> 2,
     b13 |-> 82, b14 |-> 1,  b15 |-> 42],
    \* extended console type 5
    [b6 |-> 10,  b7 |-> 11,  b8 |-> 0,   b10 |-> 7,   b11 |-> 0,   b12 |-> 1,
     b13 |-> 5,  b14 |-> 0,  b15 |-> 1],
    \* Playchoice 10
    [b6 |-> 1,   b7 |-> 26,  b8 |-> 16,  b10 |-> 0,   b11 |-> 9,   b12 |-> 3,
     b13 |-> 0,  b14 |-> 3,  b15 |-> 63] }

\* descriptors that are not well-formed NES 2.0: reserved bits set, a byte 13
\* without a console type that reads it, the iNES 1.0 and archaic signatures
OddProfiles ==
  { [b6 |-> 0,   b7 |-> 8,   b8 |-> 0,   b10 |-> 0,   b11 |-> 0,   b12 |-> 6,
     b13 |-> 0,  b14 |-> 0,  b15 |-> 0],
    [b6 |-> 0,   b7 |-> 8,   b8 |-> 0,   b10 |-> 0,   b11 |-> 0,   b12 |-> 0,
     b13 |-> 33, b14 |-> 0,  b15 |-> 0],
    [b6 |-> 0,   b7 |-> 11,  b8 |-> 0,   b10 |-> 0,   b11 |-> 0,   b12 |-> 0,
     b13 |-> 37, b14 |-> 4,  b15 |-> 64],
    [b6 |-> 17,  b7 |-> 35,  b8 |-> 1,   b10 |-> 0,   b11 |-> 0,   b12 |-> 0,
     b13 |-> 0,  b14 |-> 0,  b15 |-> 0],
    [b6 |-> 0,   b7 |-> 12,  b8 |-> 0,   b10 |-> 0,   b11 |-> 0,   b12 |-> 0,
     b13 |-> 0,  b14 |-> 0,  b15 |-> 0] }

Descriptor(prg, chr, trainer, p) ==
  NES_HEADER_MAGIC \o
  <<SizeByte(prg), SizeByte(chr), p.b6 + BoolBit(trainer, 2), p.b7, p.b8,
    SizeNibble(prg) + 16 * SizeNibble(chr), p.b10, p.b11, p.b12, p.b13, p.b14, p.b15>>

\* descriptor, optional trainer, and a payload of PRG, CHR and misc bytes
MkNESFile(prg, chr, trainer, misc, p) ==
  Descriptor(prg, chr, trainer, p)
    \o (IF trainer THEN Fill(TrainerSize, 3) ELSE <<>>)
    \o Fill(SizeBytes(prg, PRGBlockSize) + SizeBytes(chr, CHRBlockSize) + misc, 11)

SmallPRG == [lin |-> FALSE, n |-> 0, e |-> 1, m |-> 1]

NoCHR == [lin |-> TRUE, n |-> 0, e |-> 0, m |-> 0]

Linear(n) == [lin |-> TRUE, n |-> n, e |-> 0, m |-> 0]

\* the size forms that declare a few bytes at most
SmallForms == {f \in SizeForms : f.lin => f.n = 0}

\* every small size form under the plain profile, whole PRG blocks with and
\* without whole CHR blocks, every profile with a small payload
GoodNESFiles ==
  { MkNESFile(prg, chr, t, misc, CHOOSE p \in HeaderProfiles : p.b6 = 0) :
      prg \in SmallForms, chr \in SmallForms, t \in BOOLEAN, misc \in 0..MaxMisc }
  \cup
  { MkNESFile(Linear(n), Linear(k), k = 1, k * MaxMisc,
               CHOOSE p \in HeaderProfiles : p.b7 % 4 = 1) :
      n \in 1..MaxLinear, k \in 0..1 }
  \cup
  { MkNESFile(SmallPRG, Linear(1), FALSE, 0, CHOOSE p \in HeaderProfiles : p.b6 = 0) }
  \cup
  { MkNESFile(SmallPRG, chr, t, misc, p) :
      chr \in {f \in SizeForms : ~f.lin}, t \in BOOLEAN, misc \in 0..MaxMisc,
      p \in HeaderProfiles \cup OddProfiles }

\* files cut short: inside the descriptor, inside the trainer, inside the payload
ShortNESFiles ==
  { SubSeq(f, 1, IF n < Len(f) THEN n ELSE Len(f)) : f \in { MkNESFile(SmallPRG, NoCHR, t, 0, p) :
                               t \in BOOLEAN, p \in HeaderProfiles \cup OddProfiles },
                      n \in {0, 15, 16, 20, 21, 22, 527, 528, 533} }

\* a file that does not start with the NES magic
BadMagicFiles == { [f EXCEPT ![1] = 0] : f \in {MkNESFile(SmallPRG, NoCHR, FALSE, 0, p) :
                                                 p \in HeaderProfiles} }

\* the largest exponent the six exponent bits of a size byte hold
LargestExponent == 63

\* exponent forms that declare more bytes than any file holds
HugeForms ==
  [lin : {FALSE}, n : {0}, e : {31, LargestExponent - 2, LargestExponent - 1, LargestExponent},
   m : {0, 1, 2, 3}]

\* descriptors with a huge PRG or CHR size, followed by a few payload bytes
HugeNESFiles ==
  { Descriptor(prg, chr, FALSE, CHOOSE p \in HeaderProfiles : p.b6 = 0) \o Fill(k, 11) :
      prg \in HugeForms \cup {SmallPRG}, chr \in HugeForms \cup {NoCHR}, k \in {0, 5} }

NESFiles == GoodNESFiles \cup ShortNESFiles \cup BadMagicFiles \cup HugeNESFiles

NESFlags == [enableInes : BOOLEAN, preserveTrainer : BOOLEAN, truncateRom : BOOLEAN]

-----------------------------------------------------------------------------
(* The NES pipeline: a file is decoded, the record is encoded again        *)

\* the NES pipeline at rest
IdleNES ==
  /\ nesPc = "idle"
  /\ inputFile = <<>>
  /\ nesFlags = [enableInes |-> FALSE, preserveTrainer |-> FALSE, truncateRom |-> FALSE]
  /\ romData = NilROM
  /\ decodeErr = ""
  /\ romBytes = NilBytes
  /\ encodeErr = ""

\* the match and transplant engine at rest
IdleMatch ==
  /\ matchPc = "idle"
  /\ testRom = NilROM
  /\ templateRomMap = <<>>
  /\ matchOpts = [hashTypeTests |-> 0, enableInes |-> FALSE, truncateRoms |-> FALSE,
                  organizeRoms |-> FALSE]
  /\ tempRom = NilROM
  /\ matchErr = ""
  /\ updateErr = ""

\* no library function is being called
IdleCall ==
  /\ callPc = "idle"
  /\ callArgs = <<>>
  /\ callResult = <<>>

InitNES ==
  /\ IdleMatch
  /\ IdleCall
  /\ nesPc = "start"
  /\ inputFile \in NESFiles
  /\ nesFlags \in NESFlags
  /\ romData = NilROM
  /\ decodeErr = ""
  /\ romBytes = NilBytes
  /\ encodeErr = ""

Decode ==
  /\ nesPc = "start"
  /\ LET r == DecodeNESROM(inputFile, nesFlags.enableInes, nesFlags.preserveTrainer, "")
     IN /\ romData' = r.rom
        /\ decodeErr' = r.err
  /\ nesPc' = "decoded"
  /\ UNCHANGED <<inputFile, nesFlags, romBytes, encodeErr, exceptNES>>

\* a file whose decoding failed is skipped by the callers
Encode ==
  /\ nesPc = "decoded"
  /\ decodeErr = ""
  /\ LET r == EncodeNESROM(romData, nesFlags.enableInes, nesFlags.truncateRom,
                           nesFlags.preserveTrainer)
     IN /\ romBytes' = r.bytes
        /\ encodeErr' = r.err
  /\ nesPc' = "encoded"
  /\ UNCHANGED <<inputFile, nesFlags, romData, decodeErr, exceptNES>>

NextNES == Decode \/ Encode

SpecNES == InitNES /\ [][NextNES]_vars

-----------------------------------------------------------------------------
(* Claims about the NES codec                                              *)

HasTrainerFlag(file) == Bit(At(file, 6), 2)

\* the PRG and CHR byte counts a descriptor declares
DeclaredPRGBytes(file) ==
  IF At(file, 9) % 16 # 15
  THEN U64MulSmall(U64(At(file, 4) + 256 * (At(file, 9) % 16)), PRGBlockSize)
  ELSE ExponentSize(At(file, 4) \div 4, At(file, 4) % 4)

DeclaredCHRBytes(file) ==
  IF At(file, 9) \div 16 # 15
  THEN U64MulSmall(U64(At(file, 5) + 256 * (At(file, 9) \div 16)), CHRBlockSize)
  ELSE ExponentSize(At(file, 5) \div 4, At(file, 5) % 4)

\* a 16-byte NES 2.0 descriptor with its reserved bits clear, the trainer the
\* descriptor announces, and a payload that holds the declared PRG and CHR
WellFormedNES20(file) ==
  /\ Len(file) >= 16
  /\ Slice(file, 0, 4) = NES_HEADER_MAGIC
  /\ HasNES20Signature(file)
  /\ At(file, 12) < 4 /\ At(file, 14) < 4 /\ At(file, 15) < 64
  /\ (At(file, 7) % 4 \in {0, 2} => At(file, 13) = 0)
  /\ (At(file, 7) % 4 = 3 => At(file, 13) < 16)
  /\ (HasTrainerFlag(file) => Len(file) >= 16 + TrainerSize)
  /\ U64IsSmall(DeclaredPRGBytes(file)) /\ U64IsSmall(DeclaredCHRBytes(file))
  /\ Len(file) - 16 - (IF HasTrainerFlag(file) THEN TrainerSize ELSE 0)
       >= U64ToInt(DeclaredPRGBytes(file)) + U64ToInt(DeclaredCHRBytes(file))

\* C1: a well-formed NES 2.0 file without a trainer, or with a trainer that is
\* preserved by decode and encode, is decoded without an error and encoded,
\* truncation off, to exactly its own bytes.
C1_RoundTrip ==
  (/\ WellFormedNES20(inputFile)
   /\ ~nesFlags.truncateRom
   /\ (HasTrainerFlag(inputFile) => nesFlags.preserveTrainer))
  => /\ (nesPc # "start" => decodeErr = "")
     /\ (nesPc = "encoded" => encodeErr = "" /\ romBytes = inputFile)

\* the round trip of C1 outside the two size fields that are not re-encoded as
\* they were read: a linear PRG count of 0, and a CHR exponent form 0/0
C1_RoundTripOtherSizes ==
  (/\ WellFormedNES20(inputFile)
   /\ ~nesFlags.truncateRom
   /\ (HasTrainerFlag(inputFile) => nesFlags.preserveTrainer)
   /\ ~(At(inputFile, 9) % 16 = 0 /\ At(inputFile, 4) = 0)
   /\ ~(At(inputFile, 9) \div 16 = 15 /\ At(inputFile, 5) = 0))
  => /\ (nesPc # "start" => decodeErr = "")
     /\ (nesPc = "encoded" => encodeErr = "" /\ romBytes = inputFile)

\* the file of a decoded record without its descriptor and without the trainer
\* its descriptor announces
PayloadOf(file) ==
  Slice(file, 16 + (IF HasTrainerFlag(file) THEN TrainerSize ELSE 0), Len(file))

\* C2: after a successful decode the whole-image CRC-32, MD5, SHA-1 and SHA-256
\* are the digests of PRG, CHR and misc, that is of the file without its
\* descriptor and without the trainer the descriptor announces.
C2_WholeHashes ==
  (nesPc = "decoded" /\ decodeErr = "")
  => LET d == Digests(PayloadOf(inputFile))
     IN /\ romData.CRC32 = d.CRC32
        /\ romData.MD5 = d.MD5
        /\ romData.SHA1 = d.SHA1
        /\ romData.SHA256 = d.SHA256

\* the whole-image digests of C2 for the files that hold the trainer their
\* descriptor announces
C2_WholeHashesTrainerPresent ==
  (/\ nesPc = "decoded" /\ decodeErr = ""
   /\ (HasTrainerFlag(inputFile) => Len(inputFile) >= 16 + TrainerSize))
  => LET d == Digests(PayloadOf(inputFile))
     IN /\ romData.CRC32 = d.CRC32
        /\ romData.MD5 = d.MD5
        /\ romData.SHA1 = d.SHA1
        /\ romData.SHA256 = d.SHA256
        /\ romData.ROMData = PayloadOf(inputFile)
        /\ (romData.Header20 # NilHeader =>
              romData.PRGROMData \o romData.CHRROMData \o romData.MiscROMData
                = PayloadOf(inputFile))

\* an NES 2.0 file that holds its descriptor and the trainer it announces
HoldsDescriptor20(file) ==
  /\ Len(file) >= 16
  /\ Slice(file, 0, 4) = NES_HEADER_MAGIC
  /\ HasNES20Signature(file)
  /\ (HasTrainerFlag(file) => Len(file) >= 16 + TrainerSize)

\* the payload holds the PRG and CHR bytes the descriptor declares (a declared
\* size that does not fit 31 bits is larger than any payload; a size that has
\* wrapped at 2^64 never fits 31 bits, since (2m+1) * 2^e keeps e low zero bits)
PayloadHoldsDeclared(file) ==
  /\ U64IsSmall(DeclaredPRGBytes(file)) /\ U64IsSmall(DeclaredCHRBytes(file))
  /\ Len(PayloadOf(file))
       >= U64ToInt(DeclaredPRGBytes(file)) + U64ToInt(DeclaredCHRBytes(file))

\* the record holds the payload split at the declared byte counts
SplitAsDeclared(file, rom) ==
  LET prg == U64ToInt(DeclaredPRGBytes(file))
      chr == U64ToInt(DeclaredCHRBytes(file))
  IN /\ rom.PRGROMData = Slice(PayloadOf(file), 0, prg)
     /\ rom.CHRROMData = Slice(PayloadOf(file), prg, prg + chr)
     /\ rom.MiscROMData = Slice(PayloadOf(file), prg + chr, Len(PayloadOf(file)))

\* C18: for every NES 2.0 descriptor, exponent-form sizes with exponents up to
\* 63 included, DecodeNESROM splits the payload into PRG, CHR and misc at the
\* declared byte counts, and returns the size error when the payload is
\* shorter than PRG plus CHR: never a record, never an out-of-range access.
C18_SplitOrError ==
  (nesPc = "decoded" /\ HoldsDescriptor20(inputFile))
  => IF PayloadHoldsDeclared(inputFile)
     THEN decodeErr = "" /\ SplitAsDeclared(inputFile, romData)
     ELSE decodeErr = "Invalid PRGROM and/or CHRROM size(s) detected during extraction."

\* the split of C18 for the descriptors whose declared sizes and their sum stay
\* below 2^63
C18_SplitOrErrorBelowWrap ==
  (/\ nesPc = "decoded" /\ HoldsDescriptor20(inputFile)
   /\ ~U64TopBit(DeclaredPRGBytes(inputFile))
   /\ ~U64TopBit(DeclaredCHRBytes(inputFile))
   /\ ~U64TopBit(U64Add(DeclaredPRGBytes(inputFile), DeclaredCHRBytes(inputFile))))
  => IF PayloadHoldsDeclared(inputFile)
     THEN decodeErr = "" /\ SplitAsDeclared(inputFile, romData)
     ELSE decodeErr = "Invalid PRGROM and/or CHRROM size(s) detected during extraction."

\* C20: DecodeNESROM fails, with the trainer error, for every file whose
\* descriptor sets the trainer flag and that is shorter than 528 bytes.
C20_TruncatedTrainer ==
  (/\ nesPc = "decoded"
   /\ Len(inputFile) >= 16
   /\ Slice(inputFile, 0, 4) = NES_HEADER_MAGIC
   /\ HasTrainerFlag(inputFile)
   /\ Len(inputFile) < 16 + TrainerSize)
  => decodeErr = "Header indicates trainer data, but file too small for one."

\* DecodeNESROM never accepts a file for which getStrippedRom reported an error
\* other than the missing trainer
C20_OtherStripErrorsFail ==
  (/\ nesPc = "decoded"
   /\ getStrippedRom(inputFile).err # ""
   /\ getStrippedRom(inputFile).err
        # "Header indicates trainer data, but file too small for one.")
  => decodeErr = getStrippedRom(inputFile).err

-----------------------------------------------------------------------------
(* NESTool/NESROM.go: TruncateROMDataAndSections                           *)

\* s[:n] when the slice is longer than n
CutTo(s, n) == IF LenB(s) > n THEN Slice(s, 0, n) ELSE s

\* append(prg, chr...): a nil slice stays nil when nothing is appended
AppendBytes(prg, chr) ==
  IF IsNil(prg) /\ LenB(chr) = 0 THEN NilBytes ELSE Elems(prg) \o Elems(chr)

\* The append writes CHR behind the cut PRG in the array PRG is a slice of.
\* When CHRROMData is a slice of the same array, at chrStart, it reads the
\* bytes of that array after the write.
CHRAfterAppend(prgLen, chr, chrStart) ==
  IF chrStart < 0 \/ IsNil(chr) THEN chr
  ELSE [i \in 1..Len(chr) |->
          LET pos == chrStart + i - 1
          IN IF prgLen <= pos /\ pos < prgLen + Len(chr)
             THEN chr[pos - prgLen + 1] ELSE chr[i]]

TruncateROMDataAndSections(rom) ==
  IF rom.Header20 = NilHeader /\ rom.Header10 = NilHeader THEN rom
  ELSE LET h == IF rom.Header20 # NilHeader THEN rom.Header20 ELSE rom.Header10
           prg == CutTo(rom.PRGROMData, h.PRGROMCalculatedSize)
           chr == CutTo(rom.CHRROMData, h.CHRROMCalculatedSize)
       IN [rom EXCEPT !.PRGROMData = prg,
                      !.CHRROMData = CHRAfterAppend(LenB(prg), chr, rom.CHRROMDataStart),
                      !.ROMData = AppendBytes(prg, chr)]

-----------------------------------------------------------------------------
(* ProcessingTools: MatchNESROM, UpdateNESROM, MatchFDSROM, UpdateFDSROM   *)

HASH_TYPE_SUM16 == 1

HASH_TYPE_CRC32 == 2

HASH_TYPE_MD5 == 4

HASH_TYPE_SHA1 == 8

HASH_TYPE_SHA256 == 16

HashTypeBit(alg) ==
  CASE alg = "SUM16" -> HASH_TYPE_SUM16
    [] alg = "CRC32" -> HASH_TYPE_CRC32
    [] alg = "MD5" -> HASH_TYPE_MD5
    [] alg = "SHA1" -> HASH_TYPE_SHA1
    [] alg = "SHA256" -> HASH_TYPE_SHA256

\* the same algorithms, the cheapest first
MatchOrderAscending == <<"SUM16", "CRC32", "MD5", "SHA1", "SHA256">>

\* the order in which MatchNESROM and MatchFDSROM try the algorithms
MatchOrder == <<"SHA256", "SHA1", "MD5", "CRC32", "SUM16">>

\* hashTypeTests & HASH_TYPE_x > 0
HashTypeEnabled(hashTypeTests, alg) == BitAnd(hashTypeTests, HashTypeBit(alg)) > 0

\* the whole-image hash of a record
WholeHash(rom, alg) ==
  CASE alg = "CRC32" -> rom.CRC32
    [] alg = "MD5" -> rom.MD5
    [] alg = "SHA1" -> rom.SHA1
    [] alg = "SHA256" -> rom.SHA256

\* "SHA256:" + strings.ToUpper(hex.EncodeToString(hash)): the upper-case hex
\* string of a fixed-width hash names the hash, so the key is the pair
TemplateKey(alg, hash) == <<alg \o ":", hash>>

PRGHash(h, alg) ==
  CASE alg = "SUM16" -> h.PRGROMSum16
    [] alg = "CRC32" -> h.PRGROMCRC32
    [] alg = "MD5" -> h.PRGROMMD5
    [] alg = "SHA1" -> h.PRGROMSHA1
    [] alg = "SHA256" -> h.PRGROMSHA256

CHRHash(h, alg) ==
  CASE alg = "SUM16" -> h.CHRROMSum16
    [] alg = "CRC32" -> h.CHRROMCRC32
    [] alg = "MD5" -> h.CHRROMMD5
    [] alg = "SHA1" -> h.CHRROMSHA1
    [] alg = "SHA256" -> h.CHRROMSHA256

\* the test of one template header against one header of the observed record
SegmentsMatch(th, rh, alg) ==
  /\ PRGHash(th, alg) = PRGHash(rh, alg)
  /\ \/ (th.CHRROMSize = 0 /\ rh.CHRROMSize = 0)
     \/ CHRHash(th, alg) = CHRHash(rh, alg)

\* the body of the loop over the template map, for one template
TemplateMatches(template, rom, alg, enableInes) ==
  LET test(th) ==
        \/ (rom.Header20 # NilHeader /\ SegmentsMatch(th, rom.Header20, alg))
        \/ (rom.Header10 # NilHeader /\ SegmentsMatch(th, rom.Header10, alg))
  IN IF template.Header20 # NilHeader THEN test(template.Header20)
     ELSE IF enableInes /\ template.Header10 # NilHeader THEN test(template.Header10)
     ELSE FALSE

\* The templates one algorithm can return: the template under the key of the
\* whole-image hash, else any template the loop over the map accepts (a Go
\* map is ranged over in no fixed order).
AlgorithmHits(rom, templates, alg, enableInes) ==
  IF alg # "SUM16" /\ TemplateKey(alg, WholeHash(rom, alg)) \in DOMAIN templates
  THEN {templates[TemplateKey(alg, WholeHash(rom, alg))]}
  ELSE {templates[k] : k \in {x \in DOMAIN templates :
                                TemplateMatches(templates[x], rom, alg, enableInes)}}

NoMatchNES == [rom |-> NilROM, err |-> "No match found for NES ROM"]

RECURSIVE MatchFrom(_, _, _, _, _)
MatchFrom(i, rom, templates, hashTypeTests, enableInes) ==
  IF i > Len(MatchOrder) THEN {NoMatchNES}
  ELSE LET alg == MatchOrder[i]
           hits == IF HashTypeEnabled(hashTypeTests, alg)
                   THEN AlgorithmHits(rom, templates, alg, enableInes) ELSE {}
       IN IF hits # {} THEN {[rom |-> t, err |-> ""] : t \in hits}
          ELSE MatchFrom(i + 1, rom, templates, hashTypeTests, enableInes)

\* MatchNESROM: the results it can return
MatchNESROM(rom, templates, hashTypeTests, enableInes) ==
  MatchFrom(1, rom, templates, hashTypeTests, enableInes)

\* a template value is copied whenever the target's is empty or the records
\* are organized
CopiesFieldUnguarded(templateValue, targetValue, organizeRoms) ==
  organizeRoms \/ targetValue = ""

\* templateRom.Name != "" && (organizeRoms || targetRom.Name == ""), and the
\* same test for RelativePath
CopiesField(templateValue, targetValue, organizeRoms) ==
  templateValue # "" /\ (organizeRoms \/ targetValue = "")

\* UpdateNESROM without the two assignments of nil: the header of the other
\* variant stays in the observed record
UpdateNESROMKeepsOther(targetRom, templateRom, truncateRom, organizeRoms, enableInes) ==
  IF targetRom = NilROM \/ templateRom = NilROM
  THEN [rom |-> targetRom, err |-> "Missing target or template NES ROM for update."]
  ELSE IF templateRom.Header20 = NilHeader
          /\ ~(enableInes /\ templateRom.Header10 # NilHeader)
  THEN [rom |-> targetRom, err |-> "Unable to update ROM."]
  ELSE [rom |-> [(IF templateRom.Header20 # NilHeader
                  THEN [targetRom EXCEPT !.Header20 = templateRom.Header20]
                  ELSE [targetRom EXCEPT !.Header10 = templateRom.Header10])
                   EXCEPT !.SHA256 = templateRom.SHA256, !.SHA1 = templateRom.SHA1,
                          !.MD5 = templateRom.MD5, !.CRC32 = templateRom.CRC32],
        err |-> ""]

\* UpdateNESROM: the observed record after the call, and the error
UpdateNESROM(targetRom, templateRom, truncateRom, organizeRoms, enableInes) ==
  IF targetRom = NilROM \/ templateRom = NilROM
  THEN [rom |-> targetRom, err |-> "Missing target or template NES ROM for update."]
  ELSE IF templateRom.Header20 = NilHeader
          /\ ~(enableInes /\ templateRom.Header10 # NilHeader)
  THEN [rom |-> targetRom, err |-> "Unable to update ROM."]
  ELSE LET r1 == IF templateRom.Header20 # NilHeader
                 THEN [targetRom EXCEPT !.Header20 = templateRom.Header20,
                                        !.Header10 = NilHeader]
                 ELSE [targetRom EXCEPT !.Header10 = templateRom.Header10,
                                        !.Header20 = NilHeader]
           r2 == IF CopiesField(templateRom.Name, r1.Name, organizeRoms)
                 THEN [r1 EXCEPT !.Name = templateRom.Name] ELSE r1
           r3 == IF CopiesField(templateRom.RelativePath, r2.RelativePath, organizeRoms)
                 THEN [r2 EXCEPT !.RelativePath = templateRom.RelativePath] ELSE r2
           r4 == [r3 EXCEPT !.SHA256 = templateRom.SHA256, !.SHA1 = templateRom.SHA1,
                            !.MD5 = templateRom.MD5, !.CRC32 = templateRom.CRC32]
       IN [rom |-> IF truncateRom THEN TruncateROMDataAndSections(r4) ELSE r4,
           err |-> ""]

\* &FDSArchiveFile{}
NewFDSArchiveFile ==
  [Name |-> "", Filename |-> "", RelativePath |-> "", Size |-> 0,
   CRC32 |-> ZeroDigest("CRC32"), MD5 |-> ZeroDigest("MD5"),
   SHA1 |-> ZeroDigest("SHA1"), SHA256 |-> ZeroDigest("SHA256"),
   ArchiveDisks |-> <<>>]

NoMatchFDS == [rom |-> NilROM, err |-> "No match found for FDS ROM"]

RECURSIVE MatchFDSFrom(_, _, _, _)
MatchFDSFrom(i, rom, romList, hashTypeTests) ==
  IF i > Len(MatchOrder) THEN NoMatchFDS
  ELSE LET alg == MatchOrder[i]
       IN IF /\ alg # "SUM16"
             /\ HashTypeEnabled(hashTypeTests, alg)
             /\ TemplateKey(alg, WholeHash(rom, alg)) \in DOMAIN romList
          THEN [rom |-> romList[TemplateKey(alg, WholeHash(rom, alg))], err |-> ""]
          ELSE MatchFDSFrom(i + 1, rom, romList, hashTypeTests)

\* MatchFDSROM
MatchFDSROM(rom, romList, hashTypeTests) == MatchFDSFrom(1, rom, romList, hashTypeTests)

\* UpdateFDSROM
UpdateFDSROM(targetRom, templateRom, organizeRoms) ==
  IF targetRom = NilROM \/ templateRom = NilROM
  THEN [rom |-> targetRom, err |-> "Missing target or template FDS ROM for update."]
  ELSE [rom |-> IF organizeRoms
                THEN [targetRom EXCEPT !.Name = templateRom.Name,
                                       !.RelativePath = templateRom.RelativePath]
                ELSE targetRom,
        err |-> ""]

-----------------------------------------------------------------------------
(* The records and template libraries handed to the match engine           *)

\* largest number of templates in a generated library
MaxTemplates == 2

PlainProfile == CHOOSE p \in HeaderProfiles : p.b6 = 0

VsProfile == CHOOSE p \in HeaderProfiles : p.b7 % 4 = 1

OneBlock == [lin |-> TRUE, n |-> 1, e |-> 0, m |-> 0]

\* a file with the given descriptor fields and payload
NESFileOf(prg, chr, p, payload) == Descriptor(prg, chr, FALSE, p) \o payload

\* an iNES 1.0 file: byte 7 without the NES 2.0 signature
INESFileOf(prgBlocks, chrBlocks, payload) ==
  NES_HEADER_MAGIC \o <<prgBlocks, chrBlocks, 1, 0, 0, 0, 0, 0, 0, 0, 0, 0>> \o payload

PayloadA == Fill(6, 11) \o <<60>>

\* the PRG of PayloadA with other trailing bytes
PayloadA2 == Fill(6, 11) \o <<99>>

\* the PRG of PayloadA with two bytes swapped: the same byte sum
PayloadA3 == <<25, 18>> \o SubSeq(Fill(6, 11), 3, 6) \o <<60>>

PayloadB == Fill(6, 40)

\* the PRG of PayloadA and one block of CHR
PayloadC == Fill(6, 11) \o Fill(2, 5)

PayloadC2 == Fill(6, 11) \o Fill(2, 6)

\* one block of PRG and a trailing byte
PayloadD == Fill(PRGBlockSize, 21) \o <<7>>

\* the record DecodeNESROM returns for a file, as the loaders name it
Loaded(file, enableInes, name, path) ==
  [DecodeNESROM(file, enableInes, FALSE, path).rom EXCEPT !.Name = name]

\* a template as the interchange form carries it: headers and hashes, no data
AsTemplate(rom) ==
  [rom EXCEPT !.ROMData = NilBytes, !.PRGROMData = NilBytes, !.CHRROMData = NilBytes,
              !.MiscROMData = NilBytes, !.HeaderData = NilBytes, !.CHRROMDataStart = -1]

RecordA == Loaded(NESFileOf(SmallPRG, NoCHR, PlainProfile, PayloadA), FALSE, "", "")

\* the template records of the library; the library map holds pointers to
\* them, here their positions
TemplateHeap ==
  << AsTemplate(Loaded(NESFileOf(SmallPRG, NoCHR, VsProfile, PayloadA), FALSE, "A", "a/")),
    [AsTemplate(Loaded(NESFileOf(SmallPRG, NoCHR, VsProfile, PayloadB), FALSE, "B1", "b1/"))
       EXCEPT !.SHA1 = RecordA.SHA1],
    [AsTemplate(Loaded(NESFileOf(SmallPRG, NoCHR, PlainProfile, PayloadB), FALSE, "", ""))
       EXCEPT !.CRC32 = RecordA.CRC32],
    AsTemplate(Loaded(NESFileOf(SmallPRG, NoCHR, VsProfile, PayloadA2), FALSE, "A2", "")),
    AsTemplate(Loaded(NESFileOf(SmallPRG, NoCHR, VsProfile, PayloadA3), FALSE, "", "s/")),
    AsTemplate(Loaded(NESFileOf(SmallPRG, [lin |-> FALSE, n |-> 0, e |-> 1, m |-> 0], VsProfile, PayloadC2), FALSE, "C2", "c/")),
    AsTemplate(Loaded(INESFileOf(1, 0, PayloadD), TRUE, "D", "d/")) >>

\* the observed records: NES 2.0 files, and iNES 1.0 files when iNES is enabled
ObservedROMs20 ==
  { Loaded(NESFileOf(SmallPRG, NoCHR, PlainProfile, PayloadA), FALSE, "", "obs/"),
    Loaded(NESFileOf(SmallPRG, NoCHR, PlainProfile, PayloadA), FALSE, "obs", "") }
  \cup { Loaded(NESFileOf(SmallPRG, NoCHR, PlainProfile, PayloadB), FALSE, "obs", ""),
         Loaded(NESFileOf(SmallPRG, [lin |-> FALSE, n |-> 0, e |-> 1, m |-> 0], PlainProfile, PayloadC), FALSE, "", "obs/"),
         Loaded(NESFileOf(OneBlock, NoCHR, PlainProfile, PayloadD), FALSE, "obs", "obs/") }

ObservedROMs10 == { Loaded(INESFileOf(1, 0, PayloadD), TRUE, "obs", "") }

ObservedROMs(enableInes) ==
  IF enableInes THEN ObservedROMs20 \cup ObservedROMs10 ELSE ObservedROMs20

WholeAlgorithms == {"SHA256", "SHA1", "MD5", "CRC32"}

\* the keys a loader files a record under, for the hashes it indexes
KeysOf(rom, indexed) == {TemplateKey(alg, WholeHash(rom, alg)) : alg \in indexed}

\* the sequences of distinct elements of a set, up to a length
RECURSIVE LoadOrders(_, _)
LoadOrders(pool, n) ==
  IF n = 0 THEN {<<>>}
  ELSE LET shorter == LoadOrders(pool, n - 1)
       IN shorter \cup { Append(q, t) : q \in {x \in shorter : Len(x) = n - 1},
                                        t \in pool }

Distinct(q) == \A i, j \in 1..Len(q) : i # j => q[i] # q[j]

\* LoadROMRecursiveMap: every record is filed under each indexed hash whose
\* key is still free, in the order the records were loaded
LibraryOf(heap, order, indexed) ==
  LET keys == UNION {KeysOf(heap[order[i]], indexed) : i \in 1..Len(order)}
      first(k) == CHOOSE i \in 1..Len(order) :
                    /\ k \in KeysOf(heap[order[i]], indexed)
                    /\ \A j \in 1..(i - 1) : k \notin KeysOf(heap[order[j]], indexed)
  IN [k \in keys |-> order[first(k)]]

\* the libraries: up to MaxTemplates templates, filed under SHA-256 alone or
\* under all four whole-image hashes
TemplateMaps ==
  { LibraryOf(TemplateHeap, order, indexed) :
      order \in {q \in LoadOrders(DOMAIN TemplateHeap, MaxTemplates) : Distinct(q)},
      indexed \in {{"SHA256"}, WholeAlgorithms} }

\* the map as the match reads it: key |-> the record the pointer leads to
TemplatesOf(heap, map) == [k \in DOMAIN map |-> heap[map[k]]]

\* the switches known when the library is loaded; the two switches of the
\* update are recorded when the update is called
MatchOptions ==
  [hashTypeTests : 0..31, enableInes : BOOLEAN, truncateRoms : {FALSE},
   organizeRoms : {FALSE}]

\* an FDS archive record as far as the match engine reads and writes it
FDSRecord(seed, name, path) ==
  [NewFDSArchiveFile EXCEPT !.Name = name, !.RelativePath = path,
     !.CRC32 = Digest("CRC32", <<seed>>), !.MD5 = Digest("MD5", <<seed>>),
     !.SHA1 = Digest("SHA1", <<seed>>), !.SHA256 = Digest("SHA256", <<seed>>)]

FDSObserved == { FDSRecord(1, name, path) : name \in {"", "obs"}, path \in {"", "obs/"} }

FDSTemplateHeap ==
  << FDSRecord(1, "F1", "f1/"), FDSRecord(1, "", ""), FDSRecord(2, "F2", ""),
     [FDSRecord(2, "F3", "f3/") EXCEPT !.CRC32 = Digest("CRC32", <<1>>)] >>

FDSTemplateMaps ==
  { LibraryOf(FDSTemplateHeap, order, indexed) :
      order \in {q \in LoadOrders(DOMAIN FDSTemplateHeap, MaxTemplates) : Distinct(q)},
      indexed \in {{"SHA256"}, WholeAlgorithms} }

-----------------------------------------------------------------------------
(* ProcessNESROMs and ProcessFDSROMs for one observed record               *)

InitMatch ==
  /\ IdleNES
  /\ IdleCall
  /\ matchOpts \in MatchOptions
  /\ \/ /\ matchPc = "nes"
        /\ testRom \in ObservedROMs(matchOpts.enableInes)
        /\ templateRomMap \in TemplateMaps
     \/ /\ matchPc = "fds"
        /\ testRom \in FDSObserved
        /\ templateRomMap \in FDSTemplateMaps
  /\ tempRom = NilROM
  /\ matchErr = ""
  /\ updateErr = ""

MatchNES ==
  /\ matchPc = "nes"
  /\ \E r \in MatchNESROM(testRom, TemplatesOf(TemplateHeap, templateRomMap),
                          matchOpts.hashTypeTests, matchOpts.enableInes) :
       /\ tempRom' = r.rom
       /\ matchErr' = r.err
  /\ matchPc' = "nes matched"
  /\ UNCHANGED <<testRom, templateRomMap, matchOpts, updateErr, exceptMatch>>

\* ProcessNESROMs updates the record only when the match returned no error;
\* the truncate and organize switches are read here for the first time
UpdateNES ==
  /\ matchPc = "nes matched"
  /\ matchErr = ""
  /\ \E truncateRoms \in BOOLEAN, organizeRoms \in BOOLEAN :
       LET r == UpdateNESROM(testRom, tempRom, truncateRoms, organizeRoms,
                             matchOpts.enableInes)
       IN /\ testRom' = r.rom
          /\ updateErr' = r.err
          /\ matchOpts' = [matchOpts EXCEPT !.truncateRoms = truncateRoms,
                                            !.organizeRoms = organizeRoms]
  /\ matchPc' = "nes updated"
  /\ UNCHANGED <<templateRomMap, tempRom, matchErr, exceptMatch>>

MatchFDS ==
  /\ matchPc = "fds"
  /\ LET r == MatchFDSROM(testRom, TemplatesOf(FDSTemplateHeap, templateRomMap),
                          matchOpts.hashTypeTests)
     IN /\ tempRom' = r.rom
        /\ matchErr' = r.err
  /\ matchPc' = "fds matched"
  /\ UNCHANGED <<testRom, templateRomMap, matchOpts, updateErr, exceptMatch>>

UpdateFDS ==
  /\ matchPc = "fds matched"
  /\ matchErr = ""
  /\ \E organizeRoms \in BOOLEAN :
       LET r == UpdateFDSROM(testRom, tempRom, organizeRoms)
       IN /\ testRom' = r.rom
          /\ updateErr' = r.err
          /\ matchOpts' = [matchOpts EXCEPT !.organizeRoms = organizeRoms]
  /\ matchPc' = "fds updated"
  /\ UNCHANGED <<templateRomMap, tempRom, matchErr, exceptMatch>>

NextMatch == MatchNES \/ UpdateNES \/ MatchFDS \/ UpdateFDS

SpecMatch == InitMatch /\ [][NextMatch]_vars

-----------------------------------------------------------------------------
(* The match cascade and the transplant                                    *)

\* the templates an algorithm of the cascade can return for the observed
\* record, none when the algorithm is switched off
HitsOf(alg) ==
  IF HashTypeEnabled(matchOpts.hashTypeTests, alg)
  THEN AlgorithmHits(testRom, TemplatesOf(TemplateHeap, templateRomMap), alg,
                     matchOpts.enableInes)
  ELSE {}

Cascade == <<"SHA256", "SHA1", "MD5", "CRC32", "SUM16">>

\* C3: MatchNESROM returns a template of the first algorithm, in the order
\* SHA-256, SHA-1, MD5, CRC-32, Sum-16, that is enabled and hits, whatever a
\* later algorithm would match; it returns the NoMatch error, and no
\* template, exactly when every enabled algorithm misses.
C3_CascadeOrder ==
  matchPc = "nes matched"
  => /\ \A i \in 1..Len(Cascade) :
          (HitsOf(Cascade[i]) # {} /\ \A j \in 1..(i - 1) : HitsOf(Cascade[j]) = {})
          => (matchErr = "" /\ tempRom \in HitsOf(Cascade[i]))
     /\ (matchErr # "" <=> \A i \in 1..Len(Cascade) : HitsOf(Cascade[i]) = {})
     /\ (matchErr # "" => tempRom = NilROM)

\* an earlier algorithm hits one template, a later one hits another, and the
\* match returned the earlier algorithm's
C3_EarlierWins ==
  /\ matchPc = "nes matched"
  /\ \E i, j \in 1..Len(Cascade) :
       /\ i < j
       /\ \A k \in 1..(i - 1) : HitsOf(Cascade[k]) = {}
       /\ HitsOf(Cascade[i]) = {tempRom}
       /\ HitsOf(Cascade[j]) # {}
       /\ tempRom \notin HitsOf(Cascade[j])

\* the header of a record, whichever variant it carries
HeaderOf(rom) == IF rom.Header20 # NilHeader THEN rom.Header20 ELSE rom.Header10

\* the per-segment hashes both header variants carry
SegmentHashes(h) ==
  << h.PRGROMSum16, h.PRGROMCRC32, h.PRGROMMD5, h.PRGROMSHA1, h.PRGROMSHA256,
     h.CHRROMSum16, h.CHRROMCRC32, h.CHRROMMD5, h.CHRROMSHA1, h.CHRROMSHA256,
     h.TrainerSum16, h.TrainerCRC32, h.TrainerMD5, h.TrainerSHA1, h.TrainerSHA256 >>

\* the misc hashes, which the NES 2.0 header alone carries
MiscHashes(rom) ==
  IF rom.Header20 = NilHeader THEN <<>>
  ELSE << rom.Header20.MiscROMSum16, rom.Header20.MiscROMCRC32, rom.Header20.MiscROMMD5,
          rom.Header20.MiscROMSHA1, rom.Header20.MiscROMSHA256 >>

\* a step of UpdateNESROM that returned no error and did not truncate
TransplantStep ==
  /\ matchPc = "nes matched"
  /\ matchPc' = "nes updated"
  /\ updateErr' = ""
  /\ ~matchOpts'.truncateRoms

\* the record carries the template's header variant, the other variant is
\* cleared, and the whole-image hashes are the template's
CarriesTemplate(rom, template) ==
  /\ IF template.Header20 # NilHeader
     THEN rom.Header20 = template.Header20 /\ rom.Header10 = NilHeader
     ELSE rom.Header10 = template.Header10 /\ rom.Header20 = NilHeader
  /\ rom.CRC32 = template.CRC32
  /\ rom.MD5 = template.MD5
  /\ rom.SHA1 = template.SHA1
  /\ rom.SHA256 = template.SHA256

\* payload and segments of two records are the same
SameData(a, b) ==
  /\ a.ROMData = b.ROMData
  /\ a.TrainerData = b.TrainerData
  /\ a.PRGROMData = b.PRGROMData
  /\ a.CHRROMData = b.CHRROMData
  /\ a.MiscROMData = b.MiscROMData

\* C4: after a successful UpdateNESROM without truncation the observed record
\* carries the template's header variant, the other variant cleared, and the
\* template's whole-image hashes, and its payload, its segments and its
\* per-segment hashes are what they were before the call.
C4_Transplant ==
  [][TransplantStep
     => /\ CarriesTemplate(testRom', tempRom)
        /\ SameData(testRom', testRom)
        /\ SegmentHashes(HeaderOf(testRom')) = SegmentHashes(HeaderOf(testRom))
        /\ (testRom.Header20 # NilHeader => MiscHashes(testRom') = MiscHashes(testRom))]_vars

\* the transplant of C4 without the per-segment hashes: header variant and
\* whole-image hashes from the template, payload and segments as before
C4_TransplantKeepsData ==
  [][TransplantStep
     => /\ CarriesTemplate(testRom', tempRom)
        /\ SameData(testRom', testRom)]_vars

\* a step of UpdateNESROM or UpdateFDSROM that returned no error
NESUpdateStep == matchPc = "nes matched" /\ matchPc' = "nes updated" /\ updateErr' = ""

FDSUpdateStep == matchPc = "fds matched" /\ matchPc' = "fds updated" /\ updateErr' = ""

\* the value of a name or path after an update that overwrites it when the
\* records are organized and fills it when it is empty otherwise
FilledOrOverwritten(before, template, organize) ==
  IF organize \/ before = "" THEN template ELSE before

\* C5: in UpdateNESROM and UpdateFDSROM, with organize on the observed
\* record's name and relative path are always overwritten with the
\* template's; with organize off each of the two is set from the template
\* exactly when the observed value is empty and is otherwise unchanged.
C5_Organize ==
  [][(NESUpdateStep \/ FDSUpdateStep)
     => /\ testRom'.Name =
             FilledOrOverwritten(testRom.Name, tempRom.Name, matchOpts'.organizeRoms)
        /\ testRom'.RelativePath =
             FilledOrOverwritten(testRom.RelativePath, tempRom.RelativePath,
                                 matchOpts'.organizeRoms)]_vars

\* the value of a name or path after UpdateNESROM: an empty template value is
\* never copied
FilledFromNonEmpty(before, template, organize) ==
  IF template # "" /\ (organize \/ before = "") THEN template ELSE before

\* C5, as the code has it: UpdateNESROM overwrites name and relative path with
\* a non-empty template value when organize is on, fills an empty one with a
\* non-empty template value when organize is off, and leaves them unchanged
\* otherwise; UpdateFDSROM overwrites both with the template's when organize
\* is on and leaves both unchanged when organize is off.
C5_OrganizeNonEmpty ==
  [][/\ NESUpdateStep
        => /\ testRom'.Name =
                FilledFromNonEmpty(testRom.Name, tempRom.Name, matchOpts'.organizeRoms)
           /\ testRom'.RelativePath =
                FilledFromNonEmpty(testRom.RelativePath, tempRom.RelativePath,
                                   matchOpts'.organizeRoms)
     /\ FDSUpdateStep
        => IF matchOpts'.organizeRoms
           THEN /\ testRom'.Name = tempRom.Name
                /\ testRom'.RelativePath = tempRom.RelativePath
           ELSE /\ testRom'.Name = testRom.Name
                /\ testRom'.RelativePath = testRom.RelativePath]_vars

\* an organizing UpdateNESROM has met a template without a name and the
\* observed record has kept its own
C5_KeepsNameOfUnnamedTemplate ==
  /\ matchPc = "nes updated"
  /\ updateErr = ""
  /\ matchOpts.organizeRoms
  /\ tempRom.Name = ""
  /\ testRom.Name # ""

-----------------------------------------------------------------------------
(* FactorRomSize called on a byte count                                    *)

\* largest k of the byte counts 3 * 2^k, 5 * 2^k and 7 * 2^k handed to FactorRomSize
MaxShift == 40

\* the largest block count the twelve bits of a linear size hold: a high nibble
\* of 0xF selects the exponent form
LinearFieldMax == 3839

\* the byte counts handed to FactorRomSize
FactorSizes ==
  {U64(0), U64(1)}
    \cup { U64MulSmall(U64Shl1(k), q) : k \in 0..MaxShift, q \in {1, 3, 5, 7} }

InitFactor ==
  /\ IdleNES
  /\ IdleMatch
  /\ callPc = "FactorRomSize"
  /\ callArgs \in [romSize : FactorSizes, romType : {ROM_TYPE_PRGROM, ROM_TYPE_CHRROM}]
  /\ callResult = <<>>

Factor ==
  /\ callPc = "FactorRomSize"
  /\ callResult' = FactorRomSize(callArgs.romSize, callArgs.romType)
  /\ callPc' = "returned"
  /\ UNCHANGED <<callArgs, exceptCall>>

NextFactor == Factor

SpecFactor == InitFactor /\ [][NextFactor]_vars

BlockSizeOf(romType) == IF romType = ROM_TYPE_PRGROM THEN PRGBlockSize ELSE CHRBlockSize

\* the byte counts 1, 3 * 2^k, 5 * 2^k and 7 * 2^k
OddTimesPowerOfTwo(romSize) ==
  \/ romSize = U64(1)
  \/ \E k \in 0..MaxShift, q \in {3, 5, 7} : romSize = U64MulSmall(U64Shl1(k), q)

\* a linear count that fits its field and stands for romSize bytes
LinearFor(r, romSize, romType) ==
  /\ r.exponent = 0 /\ r.multiplier = 0
  /\ r.size <= LinearFieldMax
  /\ U64MulSmall(U64(r.size), BlockSizeOf(romType)) = romSize

\* an exponent and a multiplier with (1 << exp) * (2 * mult + 1) = romSize
ExponentFor(r, romSize) ==
  /\ r.size = 0
  /\ r.exponent <= LargestExponent /\ r.multiplier <= 3
  /\ ExponentSize(r.exponent, r.multiplier) = romSize

\* romSize is a whole number of blocks and the count fits the linear field
FitsLinear(romSize, romType) ==
  /\ U64DivMod(romSize, BlockSizeOf(romType)).r = 0
  /\ U64Less(U64DivMod(romSize, BlockSizeOf(romType)).q, U64(LinearFieldMax + 1))

\* C19: for every N in {1, 3 * 2^k, 5 * 2^k, 7 * 2^k : 0 <= k <= 40} and both
\* ROM types FactorRomSize returns an encoding of exactly N bytes, a linear
\* count that fits the linear field or an exponent and a multiplier, and the
\* linear form is the one chosen whenever N is a whole number of blocks and
\* the count fits.
C19_FactorExact ==
  (callPc = "returned" /\ OddTimesPowerOfTwo(callArgs.romSize))
  => /\ \/ LinearFor(callResult, callArgs.romSize, callArgs.romType)
        \/ ExponentFor(callResult, callArgs.romSize)
     /\ (FitsLinear(callArgs.romSize, callArgs.romType)
           => LinearFor(callResult, callArgs.romSize, callArgs.romType))

\* the statement of C19 for the byte counts that are not a whole number of
\* blocks, or whose block count fits the linear field
C19_FactorExactWhenCountFits ==
  (/\ callPc = "returned" /\ OddTimesPowerOfTwo(callArgs.romSize)
   /\ (U64DivMod(callArgs.romSize, BlockSizeOf(callArgs.romType)).r = 0
         => FitsLinear(callArgs.romSize, callArgs.romType)))
  => /\ \/ LinearFor(callResult, callArgs.romSize, callArgs.romType)
        \/ ExponentFor(callResult, callArgs.romSize)
     /\ (FitsLinear(callArgs.romSize, callArgs.romType)
           => LinearFor(callResult, callArgs.romSize, callArgs.romType))

-----------------------------------------------------------------------------
(* EncodeNESROMHeader called on a record                                   *)

\* NES 2.0 headers as the interchange forms load them: the console type, the
\* Vs. fields and the extended type are read independently of each other
HeaderRecords ==
  { [NewNESROM EXCEPT !.Header20 =
       [NewNES20Header EXCEPT !.ConsoleType = c, !.VsHardwareType = hw,
                              !.VsPPUType = ppu, !.ExtendedConsoleType = ext,
                              !.Mapper = 4]] :
      c \in {0, 1, 2, 3}, hw \in {0, 5, 18}, ppu \in {0, 2, 35}, ext \in {0, 5, 21} }

InitHeader ==
  /\ IdleNES
  /\ IdleMatch
  /\ callPc = "EncodeNESROMHeader"
  /\ callArgs \in [romModel : HeaderRecords, enableInes : BOOLEAN, preserveTrainer : BOOLEAN]
  /\ callResult = <<>>

EncodeHeader ==
  /\ callPc = "EncodeNESROMHeader"
  /\ callResult' = EncodeNESROMHeader(callArgs.romModel, callArgs.enableInes,
                                       callArgs.preserveTrainer)
  /\ callPc' = "returned"
  /\ UNCHANGED <<callArgs, exceptCall>>

NextHeader == EncodeHeader

SpecHeader == InitHeader /\ [][NextHeader]_vars

\* C16: byte 13 of the descriptor EncodeNESROMHeader writes is zero whenever the
\* console type is neither 1 nor 3, whatever the Vs. and extended-type fields
\* hold; for console type 1 it is the Vs. hardware type in the high nibble and
\* the Vs. PPU type in the low nibble, for console type 3 the extended console
\* type in the low nibble.
C16_Byte13 ==
  callPc = "returned"
  => LET h == callArgs.romModel.Header20
         b13 == At(callResult.bytes, 13)
     IN /\ callResult.err = ""
        /\ (h.ConsoleType \notin {1, 3} => b13 = 0)
        /\ (h.ConsoleType = 1 =>
              b13 \div 16 = h.VsHardwareType % 16 /\ b13 % 16 = h.VsPPUType % 16)
        /\ (h.ConsoleType = 3 =>
              b13 \div 16 = 0 /\ b13 % 16 = h.ExtendedConsoleType % 16)

\* a header of console type 0 or 2 with Vs. and extended-type fields set was
\* encoded with a zero byte 13
C16_StaleFieldsDropped ==
  /\ callPc = "returned"
  /\ callArgs.romModel.Header20.ConsoleType \in {0, 2}
  /\ callArgs.romModel.Header20.VsHardwareType # 0
  /\ callArgs.romModel.Header20.VsPPUType # 0
  /\ callArgs.romModel.Header20.ExtendedConsoleType # 0
  /\ At(callResult.bytes, 13) = 0

-----------------------------------------------------------------------------
(* FileTools/NES20DBXML.go: the nes20db interchange form                   *)
(* A game is the NES20DBGame struct.  The hexadecimal attributes are       *)
(* written by hex.EncodeToString and read by hex.DecodeString and carry    *)
(* the digest they were made from.                                         *)

\* uint32(64) << n
Shl32(n) == IF n + 6 < 32 THEN Pow2(n + 6) ELSE 0

\* the mirroring attribute MarshalNES20DBXMLFromROMMap writes; "" stands for
\* the combination it refuses
MirroringAttr(mapper, fourScreen, mirroringType) ==
  IF mapper = 30
  THEN IF ~fourScreen THEN (IF ~mirroringType THEN "H" ELSE "V")
       ELSE (IF ~mirroringType THEN "1" ELSE "4")
  ELSE IF mapper = 218
  THEN IF ~fourScreen THEN (IF ~mirroringType THEN "H" ELSE "V")
       ELSE (IF ~mirroringType THEN "0" ELSE "1")
  ELSE IF ~fourScreen THEN (IF ~mirroringType THEN "H" ELSE "V")
       ELSE (IF ~mirroringType THEN "4" ELSE "")

\* the flags read from a mirroring attribute by the table of the other mappers
MirroringFlagsGeneric(mapper, mirroring) ==
  IF mirroring = "H" THEN [MirroringType |-> FALSE, FourScreen |-> FALSE]
  ELSE IF mirroring = "V" THEN [MirroringType |-> TRUE, FourScreen |-> FALSE]
  ELSE IF mirroring = "4" THEN [MirroringType |-> FALSE, FourScreen |-> TRUE]
  ELSE [MirroringType |-> FALSE, FourScreen |-> FALSE]

\* the flags UnmarshalNES20DBXMLToROMMap reads from a mirroring attribute; an
\* attribute the table of the mapper does not list leaves both flags unset
MirroringFlags(mapper, mirroring) ==
  IF mirroring = "H" THEN [MirroringType |-> FALSE, FourScreen |-> FALSE]
  ELSE IF mirroring = "V" THEN [MirroringType |-> TRUE, FourScreen |-> FALSE]
  ELSE IF mapper = 30 /\ mirroring = "1" THEN [MirroringType |-> FALSE, FourScreen |-> TRUE]
  ELSE IF mapper = 30 /\ mirroring = "4" THEN [MirroringType |-> TRUE, FourScreen |-> TRUE]
  ELSE IF mapper = 218 /\ mirroring = "0" THEN [MirroringType |-> FALSE, FourScreen |-> TRUE]
  ELSE IF mapper = 218 /\ mirroring = "1" THEN [MirroringType |-> TRUE, FourScreen |-> TRUE]
  ELSE IF mapper \notin {30, 218} /\ mirroring = "4"
  THEN [MirroringType |-> FALSE, FourScreen |-> TRUE]
  ELSE [MirroringType |-> FALSE, FourScreen |-> FALSE]

\* the game MarshalNES20DBXMLFromROMMap builds from a record with an NES 2.0 header
GameOf(rom, h) ==
  [Prgrom |-> [Size |-> h.PRGROMCalculatedSize, Crc32 |-> h.PRGROMCRC32,
               Sha1 |-> h.PRGROMSHA1, Sum16 |-> h.PRGROMSum16],
   Chrrom |-> [Size |-> h.CHRROMCalculatedSize, Crc32 |-> h.CHRROMCRC32,
               Sha1 |-> h.CHRROMSHA1, Sum16 |-> h.CHRROMSum16],
   Rom |-> [Size |-> rom.Size, Crc32 |-> rom.CRC32, Sha1 |-> rom.SHA1],
   Pcb |-> [Mapper |-> h.Mapper, Submapper |-> h.SubMapper,
            Mirroring |-> MirroringAttr(h.Mapper, h.FourScreen, h.MirroringType),
            Battery |-> IF h.Battery THEN 1 ELSE 0],
   Console |-> [Type |-> IF h.ConsoleType < 3 THEN h.ConsoleType
                         ELSE h.ExtendedConsoleType,
                Region |-> h.CPUPPUTiming],
   Expansion |-> [Type |-> h.DefaultExpansion],
   Chrram |-> [Size |-> IF h.CHRRAMSize > 0 THEN Shl32(h.CHRRAMSize) ELSE 0],
   Prgnvram |-> [Size |-> IF h.PRGNVRAMSize > 0 THEN Shl32(h.PRGNVRAMSize) ELSE 0],
   Prgram |-> [Size |-> IF h.PRGRAMSize > 0 THEN Shl32(h.PRGRAMSize) ELSE 0],
   Miscrom |-> [Size |-> h.MiscROMCalculatedSize, Crc32 |-> h.MiscROMCRC32,
                Sha1 |-> h.MiscROMSHA1, Number |-> h.MiscROMs],
   Vs |-> [Hardware |-> h.VsHardwareType, Ppu |-> h.VsPPUType],
   Chrnvram |-> [Size |-> IF h.CHRNVRAMSize > 0 THEN Shl32(h.CHRNVRAMSize) ELSE 0],
   Trainer |-> IF ~IsNil(rom.TrainerData) /\ Len(rom.TrainerData) = TrainerSize
               THEN [Size |-> TrainerSize, Crc32 |-> h.TrainerCRC32, Sha1 |-> h.TrainerSHA1]
               ELSE [Size |-> 0, Crc32 |-> "", Sha1 |-> ""]]

\* the records of the map that have an NES 2.0 header, in the order of the loop
Records20(nesRoms, order) ==
  SelectSeq([i \in 1..Len(order) |-> nesRoms[order[i]]], LAMBDA r : r.Header20 # NilHeader)

\* MarshalNES20DBXMLFromROMMap, the loop over the map taken in the given order
MarshalNES20DBXMLFromROMMap(nesRoms, order) ==
  IF \E i \in 1..Len(nesRoms) :
       /\ nesRoms[i].Header20 # NilHeader
       /\ MirroringAttr(nesRoms[i].Header20.Mapper, nesRoms[i].Header20.FourScreen,
                        nesRoms[i].Header20.MirroringType) = ""
  THEN [Games |-> <<>>, err |-> "Invalid mirroring type and four screen setting for mapper"]
  ELSE [Games |-> [i \in 1..Len(Records20(nesRoms, order)) |->
                     GameOf(Records20(nesRoms, order)[i],
                            Records20(nesRoms, order)[i].Header20)],
        err |-> ""]

\* the loop "for size > 64 { size = size >> 1; shifts++ }"
RECURSIVE ShiftsTo64(_)
ShiftsTo64(size) == IF size > 64 THEN 1 + ShiftsTo64(size \div 2) ELSE 0

\* a hexadecimal attribute decoded into a digest field; an attribute that does
\* not decode leaves the zero value
HexDigest(attr, alg) == IF attr = "" THEN ZeroDigest(alg) ELSE attr

\* the header UnmarshalNES20DBXMLToROMMap fills in before it calls UpdateSizes
GameHeader(g) ==
  [NewNES20Header EXCEPT
     !.PRGROMCalculatedSize = g.Prgrom.Size,
     !.PRGROMSum16 = g.Prgrom.Sum16,
     !.PRGROMCRC32 = HexDigest(g.Prgrom.Crc32, "CRC32"),
     !.PRGROMSHA1 = HexDigest(g.Prgrom.Sha1, "SHA1"),
     !.CHRROMCalculatedSize = g.Chrrom.Size,
     !.CHRROMSum16 = IF g.Chrrom.Size > 0 THEN g.Chrrom.Sum16 ELSE 0,
     !.CHRROMCRC32 = IF g.Chrrom.Size > 0 THEN HexDigest(g.Chrrom.Crc32, "CRC32")
                     ELSE ZeroDigest("CRC32"),
     !.CHRROMSHA1 = IF g.Chrrom.Size > 0 THEN HexDigest(g.Chrrom.Sha1, "SHA1")
                    ELSE Digest("SHA1", <<>>),                 \* SHA1_ZERO_SUM
     !.Mapper = g.Pcb.Mapper,
     !.SubMapper = g.Pcb.Submapper,
     !.MirroringType = MirroringFlags(g.Pcb.Mapper, g.Pcb.Mirroring).MirroringType,
     !.FourScreen = MirroringFlags(g.Pcb.Mapper, g.Pcb.Mirroring).FourScreen,
     !.Battery = g.Pcb.Battery = 1,
     !.CPUPPUTiming = g.Console.Region,
     !.ConsoleType = IF g.Console.Type < 4 THEN g.Console.Type ELSE 3,
     !.ExtendedConsoleType = IF g.Console.Type < 4 THEN 0 ELSE g.Console.Type,
     !.DefaultExpansion = g.Expansion.Type,
     !.CHRRAMSize = IF g.Chrram.Size > 0 THEN ShiftsTo64(g.Chrram.Size) ELSE 0,
     !.PRGNVRAMSize = IF g.Prgnvram.Size > 0 THEN ShiftsTo64(g.Prgnvram.Size) ELSE 0,
     !.PRGRAMSize = IF g.Prgram.Size > 0 THEN ShiftsTo64(g.Prgram.Size) ELSE 0,
     !.MiscROMs = IF g.Miscrom.Number > 0 THEN g.Miscrom.Number ELSE 0,
     !.MiscROMCalculatedSize = IF g.Miscrom.Number > 0 THEN g.Miscrom.Size ELSE 0,
     !.MiscROMCRC32 = IF g.Miscrom.Number > 0 THEN HexDigest(g.Miscrom.Crc32, "CRC32")
                      ELSE ZeroDigest("CRC32"),
     !.MiscROMSHA1 = IF g.Miscrom.Number > 0 THEN HexDigest(g.Miscrom.Sha1, "SHA1")
                     ELSE ZeroDigest("SHA1"),
     !.VsPPUType = g.Vs.Ppu,
     !.VsHardwareType = g.Vs.Hardware,
     !.CHRNVRAMSize = IF g.Chrnvram.Size > 0 THEN ShiftsTo64(g.Chrnvram.Size) ELSE 0]

\* the trainer fields UnmarshalNES20DBXMLToROMMap sets after UpdateSizes
WithGameTrainer(rom, g) ==
  IF g.Trainer.Size > 0
  THEN [rom EXCEPT !.Header20.Trainer = TRUE,
                   !.Header20.TrainerCalculatedSize = TrainerSize,
                   !.Header20.TrainerCRC32 = HexDigest(g.Trainer.Crc32, "CRC32"),
                   !.Header20.TrainerSHA1 = HexDigest(g.Trainer.Sha1, "SHA1")]
  ELSE rom

\* the record UnmarshalNES20DBXMLToROMMap builds from a game
GameRecord(g) ==
  WithGameTrainer(
    UpdateSizes([NewNESROM EXCEPT !.Size = g.Rom.Size,
                                  !.CRC32 = HexDigest(g.Rom.Crc32, "CRC32"),
                                  !.SHA1 = HexDigest(g.Rom.Sha1, "SHA1"),
                                  !.Header20 = GameHeader(g)],
                PRG_CANONICAL_SIZE_CALCULATED, CHR_CANONICAL_SIZE_CALCULATED),
    g)

\* the key a game is filed under: "SHA1:" and the upper-cased attribute
GameKey(g) == <<"SHA1:", g.Rom.Sha1>>

\* UnmarshalNES20DBXMLToROMMap: the map after the first n games, a later game
\* replacing an earlier one with the same key
RECURSIVE UnmarshalGames(_, _)
UnmarshalGames(games, n) ==
  IF n = 0 THEN <<>>
  ELSE [k \in DOMAIN UnmarshalGames(games, n - 1) \cup {GameKey(games[n])} |->
          IF k = GameKey(games[n]) THEN GameRecord(games[n])
          ELSE UnmarshalGames(games, n - 1)[k]]

UnmarshalNES20DBXMLToROMMap(games) == UnmarshalGames(games, Len(games))

-----------------------------------------------------------------------------
(* A library is written in the nes20db form and read back                  *)

\* largest number of records of a library written in the nes20db form
MaxGames == 2

\* descriptor bytes of a file with the given mapper, flags and console type
DBProfile(mapper, mirroringType, fourScreen, battery, consoleType, b13) ==
  [b6 |-> BoolBit(mirroringType, 0) + BoolBit(battery, 1) + BoolBit(fourScreen, 3)
            + 16 * (mapper % 16),
   b7 |-> 8 + consoleType + 16 * ((mapper \div 16) % 16),
   b8 |-> mapper \div 256 + 16 * 2,
   b10 |-> 7 + 16 * 9, b11 |-> 0, b12 |-> 1, b13 |-> b13, b14 |-> 0, b15 |-> 1]

\* the mappers of the library records: the two with a table of their own,
\* their neighbours and the ends of the range
DBMappers == {0, 4, 30, 218, 4095}

\* a record as LoadROM returns it
DBRecord(mapper, mirroringType, fourScreen, battery, console, seed) ==
  Loaded(NESFileOf(SmallPRG, NoCHR,
                   DBProfile(mapper, mirroringType, fourScreen, battery,
                             console[1], console[2]),
                   Fill(6, seed)),
         FALSE, "game", "")

\* the libraries: one record of every kind, and several records that differ
\* in their payload
DBLibraries ==
  { <<DBRecord(mp, mir, four, bat, con, 1)>> :
      mp \in DBMappers, mir \in BOOLEAN, four \in BOOLEAN, bat \in BOOLEAN,
      con \in {<<0, 0>>, <<1, 82>>, <<3, 5>>} }
  \cup
  UNION { { [i \in 1..n |-> DBRecord(pick[i][1], pick[i][2], TRUE, FALSE, <<0, 0>>, i)] :
              pick \in [1..n -> {<<30, TRUE>>, <<0, FALSE>>, <<4, TRUE>>}] } :
          n \in 2..MaxGames }

\* the orders in which a loop over a Go map can visit n entries
MapOrders(n) == { o \in [1..n -> 1..n] : \A i, j \in 1..n : o[i] = o[j] => i = j }

InitDB ==
  /\ IdleNES
  /\ IdleMatch
  /\ callPc = "MarshalNES20DBXMLFromROMMap"
  /\ callArgs \in [nesRoms : DBLibraries]
  /\ callResult = <<>>

MarshalDB ==
  /\ callPc = "MarshalNES20DBXMLFromROMMap"
  /\ \E order \in MapOrders(Len(callArgs.nesRoms)) :
       callResult' = MarshalNES20DBXMLFromROMMap(callArgs.nesRoms, order)
  /\ callPc' = "UnmarshalNES20DBXMLToROMMap"
  /\ UNCHANGED <<callArgs, exceptCall>>

\* the XML that was written is read back
UnmarshalDB ==
  /\ callPc = "UnmarshalNES20DBXMLToROMMap"
  /\ callResult.err = ""
  /\ callResult' = [romMap |-> UnmarshalNES20DBXMLToROMMap(callResult.Games), err |-> ""]
  /\ callPc' = "returned"
  /\ UNCHANGED <<callArgs, exceptCall>>

NextDB == MarshalDB \/ UnmarshalDB

SpecDB == InitDB /\ [][NextDB]_vars

\* the record read back for a library record has its mirroring and four-screen flags
SameMirroring(rom, romMap) ==
  /\ <<"SHA1:", rom.SHA1>> \in DOMAIN romMap
  /\ romMap[<<"SHA1:", rom.SHA1>>].Header20.MirroringType = rom.Header20.MirroringType
  /\ romMap[<<"SHA1:", rom.SHA1>>].Header20.FourScreen = rom.Header20.FourScreen

\* C11: for every mapper and every combination of the mirroring and
\* four-screen flags of an NES 2.0 record, MarshalNES20DBXMLFromROMMap
\* followed by UnmarshalNES20DBXMLToROMMap succeeds and yields a record with
\* the same two flags.
C11_MirroringRoundTrip ==
  /\ (callPc = "UnmarshalNES20DBXMLToROMMap" => callResult.err = "")
  /\ (callPc = "returned" =>
        \A i \in 1..Len(callArgs.nesRoms) :
          SameMirroring(callArgs.nesRoms[i], callResult.romMap))

\* four-screen together with vertical mirroring, on a mapper other than 30 and 218
BothFlagsOnOtherMapper(rom) ==
  /\ rom.Header20.Mapper \notin {30, 218}
  /\ rom.Header20.FourScreen
  /\ rom.Header20.MirroringType

\* C11 as the code has it: a library is refused, with the mirroring error and
\* without XML, exactly when one of its records sets both flags on a mapper
\* other than 30 and 218; every other library is written and read back with
\* the two flags of every record as they were
C11_MirroringRoundTripOrRefused ==
  /\ (callPc = "UnmarshalNES20DBXMLToROMMap" =>
        IF \E i \in 1..Len(callArgs.nesRoms) : BothFlagsOnOtherMapper(callArgs.nesRoms[i])
        THEN /\ callResult.err = "Invalid mirroring type and four screen setting for mapper"
             /\ callResult.Games = <<>>
        ELSE callResult.err = "")
  /\ (callPc = "returned" =>
        \A i \in 1..Len(callArgs.nesRoms) :
          SameMirroring(callArgs.nesRoms[i], callResult.romMap))

\* records of mapper 30 and of mapper 218 that set both flags were read back
C11_BothFlagsOnMapper30 ==
  /\ callPc = "returned"
  /\ \E i \in 1..Len(callArgs.nesRoms) :
       /\ callArgs.nesRoms[i].Header20.Mapper = 30
       /\ callArgs.nesRoms[i].Header20.FourScreen
       /\ callArgs.nesRoms[i].Header20.MirroringType
       /\ SameMirroring(callArgs.nesRoms[i], callResult.romMap)

-----------------------------------------------------------------------------
(* FileTools/SanniNES20Generator.go: the flat lookup file                  *)
(* In this part a Go string is the sequence of its bytes, and the name and *)
(* the relative path of a record are such sequences.                       *)

\* strings.LastIndex: the 0-based index of the last occurrence, -1 without one
LastIndex(str, substr) ==
  IF \E i \in 0..(Len(str) - Len(substr)) : SubSeq(str, i + 1, i + Len(substr)) = substr
  THEN CHOOSE i \in 0..(Len(str) - Len(substr)) :
         /\ SubSeq(str, i + 1, i + Len(substr)) = substr
         /\ \A j \in (i + 1)..(Len(str) - Len(substr)) :
              SubSeq(str, j + 1, j + Len(substr)) # substr
  ELSE -1

\* strings.Replace(str, old, new, -1) for a non-empty old
RECURSIVE Replace(_, _, _)
Replace(str, old, new) ==
  IF Len(str) < Len(old) THEN str
  ELSE IF SubSeq(str, 1, Len(old)) = old
  THEN new \o Replace(SubSeq(str, Len(old) + 1, Len(str)), old, new)
  ELSE <<str[1]>> \o Replace(Tail(str), old, new)

\* strconv.Itoa of a non-negative int
RECURSIVE Itoa(_)
Itoa(n) == IF n < 10 THEN <<48 + n>> ELSE Itoa(n \div 10) \o <<48 + (n % 10)>>

\* one upper-case hexadecimal digit
HexDigit(v) == IF v < 10 THEN 48 + v ELSE 55 + v

\* strings.ToUpper(hex.EncodeToString(bytes))
RECURSIVE HexOfBytes(_)
HexOfBytes(bytes) ==
  IF bytes = <<>> THEN <<>>
  ELSE <<HexDigit(bytes[1] \div 16), HexDigit(bytes[1] % 16)>> \o HexOfBytes(Tail(bytes))

\* the eight hexadecimal digits of a CRC-32: the four bytes of the digest
HexOfCRC32(d) ==
  HexOfBytes(<<d[2] \div 256, d[2] % 256, d[3] \div 256, d[3] % 256>>)

\* "^^"
Caret2 == <<94, 94>>

\* ".nes"
DotNes == <<46, 110, 101, 115>>

\* the name taken from a relative path: the part after the last separator, cut
\* before the last ".nes", with three XML entities replaced
NameFromPath(base) ==
  Replace(Replace(Replace(SubSeq(base, 1, LastIndex(base, DotNes)),
                          <<38, 97, 109, 112, 59>>, <<38>>),
                  <<38, 103, 116, 59>>, <<62>>),
          <<38, 108, 116, 59>>, <<60>>)

\* tempName[strings.LastIndex(tempName, string(os.PathSeparator))+1:]
AfterSeparator(path) == SubSeq(path, LastIndex(path, <<47>>) + 2, Len(path))

\* the name column of a record, the key (tempName) the record is filed under,
\* and whether the slice expression that cuts ".nes" is out of range
SanniName(rom) ==
  IF rom.Name # <<>>
  THEN [text |-> rom.Name, key |-> <<>>, panic |-> FALSE]
  ELSE IF rom.RelativePath # <<>>
  THEN IF LastIndex(AfterSeparator(rom.RelativePath), DotNes) = -1
       THEN [text |-> <<>>, key |-> <<>>, panic |-> TRUE]
       ELSE [text |-> NameFromPath(AfterSeparator(rom.RelativePath)),
             key |-> NameFromPath(AfterSeparator(rom.RelativePath)), panic |-> FALSE]
  ELSE [text |-> <<>>, key |-> <<>>, panic |-> FALSE]

\* the text of a record before it is padded
SanniText(h, nameText, headerBytes) ==
  Itoa(h.PRGROMCalculatedSize) \o Caret2
    \o Itoa(h.CHRROMCalculatedSize) \o Caret2
    \o HexOfCRC32(h.PRGROMCRC32) \o Caret2
    \o (IF h.CHRROMCalculatedSize > 0 THEN HexOfCRC32(h.CHRROMCRC32) ELSE <<>>) \o Caret2
    \o nameText \o Caret2
    \o HexOfBytes(headerBytes)

\* NUL bytes up to 255 bytes, and one more NUL byte
SanniPadded(tempBytes) ==
  tempBytes \o [i \in 1..(255 - Len(tempBytes)) |-> 0] \o <<0>>

\* which arm of the loop takes a record: 20, 10, or 0 for a record that is skipped
SanniArm(rom, enableInes) ==
  IF rom.Header20 # NilHeader /\ rom.Header20.ConsoleType = 0 THEN 20
  ELSE IF enableInes /\ rom.Header10 # NilHeader /\ ~rom.Header10.VsUnisystem THEN 10
  ELSE 0

\* the bytes filed for a record an arm of the loop takes
SanniBytes(rom, arm) ==
  SanniPadded(
    SanniText(IF arm = 20 THEN rom.Header20 ELSE rom.Header10,
              SanniName(rom).text,
              EncodeNESROMHeader(rom, arm = 10, FALSE).bytes))

\* romNameMap after the first n records of the loop, a later record replacing
\* an earlier one filed under the same key
RECURSIVE SanniNameMap(_, _, _)
SanniNameMap(roms, enableInes, n) ==
  IF n = 0 THEN <<>>
  ELSE IF SanniArm(roms[n], enableInes) = 0 THEN SanniNameMap(roms, enableInes, n - 1)
  ELSE [k \in DOMAIN SanniNameMap(roms, enableInes, n - 1) \cup {SanniName(roms[n]).key} |->
          IF k = SanniName(roms[n]).key
          THEN SanniBytes(roms[n], SanniArm(roms[n], enableInes))
          ELSE SanniNameMap(roms, enableInes, n - 1)[k]]

\* a < b in the byte order of sort.Strings
RECURSIVE StringLess(_, _)
StringLess(a, b) ==
  IF b = <<>> THEN FALSE
  ELSE IF a = <<>> THEN TRUE
  ELSE IF a[1] # b[1] THEN a[1] < b[1]
  ELSE StringLess(Tail(a), Tail(b))

\* the values of the map in the ascending order of its keys
RECURSIVE InKeyOrder(_, _)
InKeyOrder(romNameMap, keys) ==
  IF keys = {} THEN <<>>
  ELSE romNameMap[CHOOSE k \in keys : \A o \in keys \ {k} : StringLess(k, o)]
         \o InKeyOrder(romNameMap,
                       keys \ {CHOOSE k \in keys : \A o \in keys \ {k} : StringLess(k, o)})

\* MarshalDBFileFromROMMap, the loop over the map taken in the given order
MarshalDBFileFromROMMap(nesRoms, enableInes, order) ==
  IF \E i \in 1..Len(nesRoms) :
       SanniArm(nesRoms[i], enableInes) # 0 /\ SanniName(nesRoms[i]).panic
  THEN [bytes |-> NilBytes, err |-> "panic: slice bounds out of range"]
  ELSE [bytes |-> InKeyOrder(
                    SanniNameMap([i \in 1..Len(order) |-> nesRoms[order[i]]],
                                 enableInes, Len(order)),
                    DOMAIN SanniNameMap([i \in 1..Len(order) |-> nesRoms[order[i]]],
                                        enableInes, Len(order))),
        err |-> ""]

-----------------------------------------------------------------------------
(* A library is written as a flat lookup file                              *)

\* largest number of records of a library written as a flat lookup file
MaxRecords == 2

\* the names and relative paths of the library records: none, "a", "b",
\* "d/a&amp;b.nes", and a path without ".nes"
SanniNamings ==
  { [Name |-> <<97>>, RelativePath |-> <<>>],
    [Name |-> <<98>>, RelativePath |-> <<100, 47, 98, 46, 110, 101, 115>>],
    [Name |-> <<>>, RelativePath |-> <<100, 47, 97, 38, 97, 109, 112, 59, 98, 46, 110, 101, 115>>],
    [Name |-> <<>>, RelativePath |-> <<100, 47, 99>>],
    [Name |-> <<>>, RelativePath |-> <<>>] }

\* the files of the library records: NES 2.0 of console type 0 and 1, and
\* iNES 1.0 with and without the Vs. flag
SanniFiles ==
  { NESFileOf(SmallPRG, SmallPRG, PlainProfile, Fill(12, 3)),
    NESFileOf(SmallPRG, NoCHR, VsProfile, PayloadA),
    INESFileOf(0, 0, <<>>),
    [INESFileOf(0, 0, <<>>) EXCEPT ![8] = 1] }

\* a record as the loaders return it, under a name and a relative path
SanniRecord(file, naming) ==
  [DecodeNESROM(file, TRUE, FALSE, "").rom
     EXCEPT !.Name = naming.Name, !.RelativePath = naming.RelativePath]

SanniLibraries ==
  UNION { [1..n -> { SanniRecord(f, nm) : f \in SanniFiles, nm \in SanniNamings }] :
          n \in 1..MaxRecords }

InitSanni ==
  /\ IdleNES
  /\ IdleMatch
  /\ callPc = "MarshalDBFileFromROMMap"
  /\ callArgs \in [nesRoms : SanniLibraries, enableInes : BOOLEAN]
  /\ callResult = <<>>

MarshalDBFile ==
  /\ callPc = "MarshalDBFileFromROMMap"
  /\ \E order \in MapOrders(Len(callArgs.nesRoms)) :
       callResult' = MarshalDBFileFromROMMap(callArgs.nesRoms, callArgs.enableInes, order)
  /\ callPc' = "returned"
  /\ UNCHANGED <<callArgs, exceptCall>>

NextSanni == MarshalDBFile

SpecSanni == InitSanni /\ [][NextSanni]_vars

\* the library records the flat file is to hold
Eligible(rom, enableInes) ==
  \/ rom.Header20 # NilHeader /\ rom.Header20.ConsoleType = 0
  \/ enableInes /\ rom.Header10 # NilHeader /\ ~rom.Header10.VsUnisystem

EligibleCount(nesRoms, enableInes) ==
  Cardinality({ i \in 1..Len(nesRoms) : Eligible(nesRoms[i], enableInes) })

\* the name column of the k-th 256-byte record of the output, k from 0: the
\* bytes between the fourth and the fifth "^^"
RECURSIVE SkipColumns(_, _)
SkipColumns(text, n) ==
  IF n = 0 \/ Len(text) < 2 THEN text
  ELSE IF SubSeq(text, 1, 2) = Caret2 THEN SkipColumns(SubSeq(text, 3, Len(text)), n - 1)
  ELSE SkipColumns(Tail(text), n)

NameColumn(output, k) ==
  SubSeq(SkipColumns(SubSeq(output, 256 * k + 1, 256 * k + 256), 4), 1,
         LastIndex(SkipColumns(SubSeq(output, 256 * k + 1, 256 * k + 256), 4), Caret2))

\* C12: MarshalDBFileFromROMMap emits one record for every eligible library
\* record (NES 2.0 of console type 0, or iNES 1.0 without the Vs. flag when
\* iNES is enabled), each padded with NUL bytes to exactly 256 bytes, in the
\* ascending order of the names: the output is 256 bytes times the number of
\* eligible records.
C12_OneRecordEach ==
  callPc = "returned"
  => /\ callResult.err = ""
     /\ Len(callResult.bytes) = 256 * EligibleCount(callArgs.nesRoms, callArgs.enableInes)
     /\ \A k \in 0..(EligibleCount(callArgs.nesRoms, callArgs.enableInes) - 1) :
          /\ callResult.bytes[256 * k + 256] = 0
          /\ k > 0 => ~StringLess(NameColumn(callResult.bytes, k),
                                   NameColumn(callResult.bytes, k - 1))

\* what the output holds in every case: one 256-byte record for every key
\* (the name taken from the path of an unnamed record, the empty key for
\* every named record), unless a path without ".nes" stops the program
C12_OneRecordPerKey ==
  (callPc = "returned" /\ callResult.err = "")
  => Len(callResult.bytes)
       = 256 * Cardinality({ SanniName(callArgs.nesRoms[i]).key :
                               i \in { j \in 1..Len(callArgs.nesRoms) :
                                         Eligible(callArgs.nesRoms[j], callArgs.enableInes) } })

-----------------------------------------------------------------------------
(* FDSTool/FDSTool.go: the sides of an archive and its whole-archive hashes *)
(* A disk side is 65500 bytes (65536 in a QD image). The model keeps the   *)
(* first ModelSideSize bytes of a side, which hold the block code, the     *)
(* magic and the disk number; the file blocks behind them are not read.    *)

\* bytes of a disk side kept in the model
ModelSideSize == 25

\* a QD side is 36 bytes longer than an FDS side
ModelQdSideSize == ModelSideSize + 36

FDS_DISK_INFO_BLOCK == 1

\* "FDS\x1a"
FDS_HEADER_MAGIC == <<70, 68, 83, 26>>

FDS_HEADER_PADDING == [i \in 1..11 |-> 0]

\* "*NINTENDO-HVC*"
FDS_MAGIC == <<42, 78, 73, 78, 84, 69, 78, 68, 79, 45, 72, 86, 67, 42>>

\* the sides of the file, each of which has to carry the magic
getDiskSideByteSlices(fdsFile, isQd) ==
  IF \E index \in 0..((Len(fdsFile) \div (IF isQd THEN ModelQdSideSize ELSE ModelSideSize)) - 1) :
       SubSeq(fdsFile,
              index * (IF isQd THEN ModelQdSideSize ELSE ModelSideSize) + 2,
              index * (IF isQd THEN ModelQdSideSize ELSE ModelSideSize) + 15) # FDS_MAGIC
  THEN [sides |-> <<>>,
        err |-> "Unable to identify side as an FDS or QD disk side.  File is not a valid FDS or QD archive."]
  ELSE [sides |-> [index \in 1..(Len(fdsFile) \div (IF isQd THEN ModelQdSideSize ELSE ModelSideSize)) |->
                     SubSeq(fdsFile,
                            (index - 1) * (IF isQd THEN ModelQdSideSize ELSE ModelSideSize) + 1,
                            index * (IF isQd THEN ModelQdSideSize ELSE ModelSideSize))],
        err |-> ""]

\* whether a payload of the given size is neither a number of FDS sides nor
\* a number of QD sides
NotSides(size) == size % ModelSideSize # 0 /\ size % ModelQdSideSize # 0

\* GetStrippedDiskSideByteSlices: the sides behind the optional 16-byte header
GetStrippedDiskSideByteSlices(fdsFile) ==
  IF Len(fdsFile) < 2
  THEN [sides |-> <<>>, err |-> "File too small to be a valid FDS archive."]
  ELSE IF Len(fdsFile) < 4
  THEN [sides |-> <<>>, err |-> "panic: slice bounds out of range"]
  ELSE IF SubSeq(fdsFile, 1, 4) = FDS_HEADER_MAGIC
  THEN IF Len(fdsFile) < 16
       THEN [sides |-> <<>>, err |-> "panic: slice bounds out of range"]
       ELSE IF NotSides(Len(fdsFile) - 16)
       THEN [sides |-> <<>>, err |-> "File is not a valid FDS or QD archive."]
       ELSE getDiskSideByteSlices(SubSeq(fdsFile, 17, Len(fdsFile)),
                                  (Len(fdsFile) - 16) % ModelSideSize # 0)
  ELSE IF NotSides(Len(fdsFile))
  THEN [sides |-> <<>>, err |-> "File is not a valid FDS or QD archive."]
  ELSE getDiskSideByteSlices(fdsFile, Len(fdsFile) % ModelSideSize # 0)

\* DecodeFDSSide as far as the disk info block: the block code is checked, the
\* disk number is read, and the other bytes behind the magic are kept as they
\* are (the fields and the files of the side)
DecodeFDSSide(inputSide) ==
  IF inputSide[1] # FDS_DISK_INFO_BLOCK
  THEN [side |-> [DiskNumber |-> 0, Size |-> 0, Fields |-> <<>>],
        err |-> "Unable to decode header for FDS side."]
  ELSE [side |-> [DiskNumber |-> inputSide[23], Size |-> Len(inputSide),
                  Fields |-> SubSeq(inputSide, 16, Len(inputSide))],
        err |-> ""]

\* EncodeFDSSide: block code, magic, and the fields with the disk number
EncodeFDSSide(inputSide) ==
  <<FDS_DISK_INFO_BLOCK>> \o FDS_MAGIC \o [inputSide.Fields EXCEPT ![8] = inputSide.DiskNumber]

\* the disks of an archive: the disk numbers in ascending order, each with its
\* sides in the order of the file
ArchiveDisksOf(sideArray) ==
  [d \in 1..Cardinality({ sideArray[i].DiskNumber : i \in DOMAIN sideArray }) |->
     [DiskNumber |->
        CHOOSE n \in { sideArray[i].DiskNumber : i \in DOMAIN sideArray } :
          Cardinality({ o \in { sideArray[i].DiskNumber : i \in DOMAIN sideArray } : o < n }) = d - 1,
      DiskSides |->
        SelectSeq(sideArray,
                  LAMBDA side :
                    Cardinality({ o \in { sideArray[i].DiskNumber : i \in DOMAIN sideArray } :
                                    o < side.DiskNumber }) = d - 1)]]

\* the archive record with the hashes and the size of the file it was read from
ArchiveOf(d, size, relativePath, sideArray) ==
  [NewFDSArchiveFile EXCEPT !.RelativePath = relativePath,
                            !.CRC32 = d["CRC32"], !.MD5 = d["MD5"],
                            !.SHA1 = d["SHA1"], !.SHA256 = d["SHA256"],
                            !.Size = size,
                            !.ArchiveDisks = ArchiveDisksOf(sideArray)]

\* DecodeFDSArchive
DecodeFDSArchive(fdsFile, relativePath) ==
  IF GetStrippedDiskSideByteSlices(fdsFile).err # ""
  THEN [archive |-> NilROM, err |-> GetStrippedDiskSideByteSlices(fdsFile).err]
  ELSE IF \E i \in DOMAIN GetStrippedDiskSideByteSlices(fdsFile).sides :
            DecodeFDSSide(GetStrippedDiskSideByteSlices(fdsFile).sides[i]).err # ""
  THEN [archive |-> NilROM, err |-> "Unable to decode header for FDS side."]
  ELSE [archive |->
          ArchiveOf(Digests(fdsFile), Len(fdsFile), relativePath,
                    [i \in DOMAIN GetStrippedDiskSideByteSlices(fdsFile).sides |->
                       DecodeFDSSide(GetStrippedDiskSideByteSlices(fdsFile).sides[i]).side]),
        err |-> ""]

\* the header EncodeFDSArchive writes in front of the sides when asked to
FDSHeaderOf(numberOfSides) == FDS_HEADER_MAGIC \o <<numberOfSides % 256>> \o FDS_HEADER_PADDING

RECURSIVE Flatten(_)
Flatten(seqs) == IF seqs = <<>> THEN <<>> ELSE Head(seqs) \o Flatten(Tail(seqs))

\* the sides of the disks of an archive, one after the other
RECURSIVE EncodedSides(_, _)
EncodedSides(disks, diskIndex) ==
  IF diskIndex > Len(disks) THEN <<>>
  ELSE Flatten([sideIndex \in DOMAIN disks[diskIndex].DiskSides |->
                  EncodeFDSSide(disks[diskIndex].DiskSides[sideIndex])])
         \o EncodedSides(disks, diskIndex + 1)

\* the number of sides of an archive
RECURSIVE NumberOfSides(_, _)
NumberOfSides(disks, diskIndex) ==
  IF diskIndex > Len(disks) THEN 0
  ELSE Len(disks[diskIndex].DiskSides) + NumberOfSides(disks, diskIndex + 1)

\* EncodeFDSArchive
EncodeFDSArchive(inputArchive, writeHeader) ==
  [bytes |-> (IF writeHeader
              THEN FDSHeaderOf(NumberOfSides(inputArchive.ArchiveDisks, 1))
              ELSE <<>>)
             \o EncodedSides(inputArchive.ArchiveDisks, 1),
   err |-> ""]

\* LoadFDSArchiveRecursiveMap: every archive under the key of every enabled
\* hash, the first archive of a key kept
RECURSIVE ArchiveMapOf(_, _, _)
ArchiveMapOf(archiveSlice, hashTypes, n) ==
  IF n = 0 THEN <<>>
  ELSE [k \in DOMAIN ArchiveMapOf(archiveSlice, hashTypes, n - 1)
              \cup { TemplateKey(alg, WholeHash(archiveSlice[n], alg)) :
                       alg \in { a \in {"SHA256", "SHA1", "MD5", "CRC32"} :
                                  HashTypeEnabled(hashTypes, a) } } |->
          IF k \in DOMAIN ArchiveMapOf(archiveSlice, hashTypes, n - 1)
          THEN ArchiveMapOf(archiveSlice, hashTypes, n - 1)[k]
          ELSE archiveSlice[n]]

-----------------------------------------------------------------------------
(* One image as the template and as the observed archive, with and without *)
(* the 16-byte file header                                                 *)

\* largest number of sides of an image
MaxSides == 2

\* a disk side: block code, magic, and bytes up to the end of the side, the
\* disk number among them
SideOf(diskNumber, fill, isQd) ==
  <<FDS_DISK_INFO_BLOCK>> \o FDS_MAGIC
    \o [i \in 1..((IF isQd THEN ModelQdSideSize ELSE ModelSideSize) - 15) |->
          IF i = 8 THEN diskNumber ELSE fill]

FDSImages ==
  { Flatten(sides) :
      sides \in UNION { [1..n -> { SideOf(dn, fill, isQd) : dn \in {0, 1}, fill \in {0, 7} }] :
                        n \in 1..MaxSides, isQd \in BOOLEAN } }

\* the file of an image, with the file header or without it
FDSFileOf(image, withHeader) ==
  IF withHeader
  THEN FDSHeaderOf(Len(image) \div (IF Len(image) % ModelSideSize = 0 THEN ModelSideSize
                                    ELSE ModelQdSideSize)) \o image
  ELSE image

InitFDS ==
  /\ IdleNES
  /\ IdleMatch
  /\ callPc = "LoadFDSArchiveRecursiveMap"
  /\ callArgs \in [image : FDSImages, templateHeader : BOOLEAN, observedHeader : BOOLEAN,
                    hashTypeTests : {HASH_TYPE_SUM16, HASH_TYPE_CRC32, HASH_TYPE_SHA1, 30}]
  /\ callResult = <<>>

\* the template library is read from the image
LoadFDSTemplates ==
  /\ callPc = "LoadFDSArchiveRecursiveMap"
  /\ callResult' =
       [romList |-> ArchiveMapOf(
                      <<[DecodeFDSArchive(FDSFileOf(callArgs.image, callArgs.templateHeader),
                                          "t/").archive
                           EXCEPT !.Name = "T"]>>,
                      callArgs.hashTypeTests, 1)]
  /\ callPc' = "MatchFDSROM"
  /\ UNCHANGED <<callArgs, exceptCall>>

\* the observed archive is read from the same image and matched
MatchFDSArchive ==
  /\ callPc = "MatchFDSROM"
  /\ callResult' =
       [romList |-> callResult.romList,
        testRom |-> DecodeFDSArchive(FDSFileOf(callArgs.image, callArgs.observedHeader), "").archive,
        match |-> MatchFDSROM(
                    DecodeFDSArchive(FDSFileOf(callArgs.image, callArgs.observedHeader), "").archive,
                    callResult.romList, callArgs.hashTypeTests)]
  /\ callPc' = "returned"
  /\ UNCHANGED <<callArgs, exceptCall>>

NextFDS == LoadFDSTemplates \/ MatchFDSArchive

SpecFDS == InitFDS /\ [][NextFDS]_vars

\* a whole-archive hash is among the enabled ones
WholeHashEnabled(hashTypeTests) ==
  \E alg \in {"SHA256", "SHA1", "MD5", "CRC32"} : HashTypeEnabled(hashTypeTests, alg)

\* C17: the whole-archive hashes of an FDS image are computed over the
\* unheadered image: the same disk sides with and without the 16-byte file
\* header have the same CRC-32, MD5, SHA-1 and SHA-256, and so match the same
\* template.
C17_HeaderIgnored ==
  (callPc = "returned" /\ WholeHashEnabled(callArgs.hashTypeTests))
  => /\ \A alg \in {"SHA256", "SHA1", "MD5", "CRC32"} :
          WholeHash(callResult.testRom, alg) = Digest(alg, callArgs.image)
     /\ callResult.match.err = ""
     /\ callResult.match.rom.Name = "T"

\* what the code does: the hashes are those of the file as it is, so the
\* image matches itself when the template and the observed file agree on
\* the header, and only then
C17_MatchesSameFile ==
  (callPc = "returned" /\ WholeHashEnabled(callArgs.hashTypeTests))
  => /\ \A alg \in {"SHA256", "SHA1", "MD5", "CRC32"} :
          WholeHash(callResult.testRom, alg)
            = Digest(alg, FDSFileOf(callArgs.image, callArgs.observedHeader))
     /\ (callResult.match.err = "") <=> (callArgs.templateHeader = callArgs.observedHeader)

-----------------------------------------------------------------------------
(* FileTools/FileAccess.go: LoadFile, LoadROM and LoadROMRecursive         *)
(* Paths and names are strings spelled out as sequences of bytes. An entry *)
(* of the walk is a path, whether it is a directory, the bytes of the file *)
(* and whether the file can be opened.                                     *)

\* the regular expression "^.+\\.nes$"
NesRegExMatches(name) ==
  /\ Len(name) > 4
  /\ SubSeq(name, Len(name) - 3, Len(name)) = DotNes
  /\ \A i \in 1..(Len(name) - 4) : name[i] # 10

\* strings.TrimPrefix
TrimPrefix(str, prefix) ==
  IF Len(str) >= Len(prefix) /\ SubSeq(str, 1, Len(prefix)) = prefix
  THEN SubSeq(str, Len(prefix) + 1, Len(str))
  ELSE str

\* the path of a file under basePath, without a leading separator
RelativePathOf(fileName, basePath) ==
  IF basePath = <<>> THEN <<>>
  ELSE IF TrimPrefix(fileName, basePath)[1] = 47
  THEN Tail(TrimPrefix(fileName, basePath))
  ELSE TrimPrefix(fileName, basePath)

\* LoadFile: the bytes of the file and its relative path, or the error of os.Open
LoadFile(entry, basePath) ==
  IF ~entry.readable
  THEN [byteSlice |-> NilBytes, relativePath |-> <<>>, err |-> "open: permission denied"]
  ELSE [byteSlice |-> entry.bytes, relativePath |-> RelativePathOf(entry.path, basePath),
        err |-> ""]

\* the name of a record: the last element of the path without a final ".nes"
RomNameOf(fileName) ==
  IF SubSeq(AfterSeparator(fileName), Len(AfterSeparator(fileName)) - 3,
            Len(AfterSeparator(fileName))) = DotNes
  THEN SubSeq(AfterSeparator(fileName), 1, Len(AfterSeparator(fileName)) - 4)
  ELSE AfterSeparator(fileName)

\* the record DecodeNESROM returned, under its file name and its name
NamedROM(decoded, fileName) ==
  [rom |-> IF decoded.rom = NilROM THEN NilROM
           ELSE [decoded.rom EXCEPT !.Filename = fileName, !.Name = RomNameOf(fileName)],
   err |-> decoded.err]

\* LoadROM
LoadROM(entry, enableInes, preserveTrainer, basePath) ==
  IF LoadFile(entry, basePath).err # ""
  THEN [rom |-> NilROM, err |-> LoadFile(entry, basePath).err]
  ELSE NamedROM(DecodeNESROM(entry.bytes, enableInes, preserveTrainer,
                             RelativePathOf(entry.path, basePath)),
                entry.path)

\* the errors of type *NESROMError: every error of the decoder
IsNESROMError(err) ==
  err \notin {"", "open: permission denied", "panic: slice bounds out of range"}

\* the list when only a record that came without an error is kept
AppendedDecoded(romSlice, loaded) ==
  IF loaded.err = "" THEN Append(romSlice, loaded.rom) ELSE romSlice

\* the list after the walk function has seen a record that LoadROM returned
\* without an error or with a *NESROMError: every record that is not nil
AppendedAll(romSlice, loaded) ==
  IF loaded.rom # NilROM THEN Append(romSlice, loaded.rom) ELSE romSlice

\* the walk function of LoadROMRecursive for one entry: the list after it, and
\* the error that stops the walk
WalkFunc(romSlice, entry, enableInes, preserveTrainers, basePath) ==
  IF entry.isDir \/ ~NesRegExMatches(AfterSeparator(entry.path))
  THEN [romSlice |-> romSlice, err |-> ""]
  ELSE IF ~IsNESROMError(LoadROM(entry, enableInes, preserveTrainers, basePath).err)
          /\ LoadROM(entry, enableInes, preserveTrainers, basePath).err # ""
  THEN [romSlice |-> romSlice,
        err |-> LoadROM(entry, enableInes, preserveTrainers, basePath).err]
  ELSE [romSlice |-> AppendedAll(romSlice,
                                 LoadROM(entry, enableInes, preserveTrainers, basePath)),
        err |-> ""]

-----------------------------------------------------------------------------
(* A directory is scanned                                                  *)

\* largest number of entries of a scanned directory
MaxEntries == 3

\* "/r"
ScanBase == <<47, 114>>

\* "/r/" and one letter and an extension
ScanPath(letter, extension) == ScanBase \o <<47, letter>> \o extension

\* the entries a scanned directory is made of, in the order of the walk:
\* a file without the magic, a file of fewer than sixteen bytes, an iNES 1.0
\* file, a file that cannot be opened, a file that declares more PRG-ROM than
\* it holds, an NES 2.0 file, a directory, and a file of another extension
ScanEntries ==
  << [path |-> ScanPath(98, DotNes), isDir |-> FALSE, readable |-> TRUE,
      bytes |-> [NESFileOf(SmallPRG, NoCHR, PlainProfile, PayloadA) EXCEPT ![1] = 0]],
     [path |-> ScanPath(99, DotNes), isDir |-> FALSE, readable |-> TRUE,
      bytes |-> <<1, 2, 3>>],
     [path |-> ScanPath(100, DotNes), isDir |-> FALSE, readable |-> TRUE,
      bytes |-> INESFileOf(0, 0, <<>>)],
     [path |-> ScanPath(101, DotNes), isDir |-> FALSE, readable |-> FALSE,
      bytes |-> <<>>],
     [path |-> ScanPath(102, DotNes), isDir |-> FALSE, readable |-> TRUE,
      bytes |-> NESFileOf(OneBlock, NoCHR, PlainProfile, PayloadA)],
     [path |-> ScanPath(109, DotNes), isDir |-> FALSE, readable |-> TRUE,
      bytes |-> NESFileOf(SmallPRG, NoCHR, PlainProfile, PayloadA)],
     [path |-> ScanPath(115, <<>>), isDir |-> TRUE, readable |-> TRUE,
      bytes |-> <<>>],
     [path |-> ScanPath(116, <<46, 116, 120, 116>>), isDir |-> FALSE, readable |-> TRUE,
      bytes |-> NESFileOf(SmallPRG, NoCHR, PlainProfile, PayloadA)] >>

\* the members of a set of entry numbers in ascending order
InWalkOrder(members) ==
  [i \in 1..Cardinality(members) |->
     ScanEntries[CHOOSE m \in members : Cardinality({ o \in members : o < m }) = i - 1]]

ScanDirectories ==
  { InWalkOrder(members) :
      members \in { ms \in SUBSET DOMAIN ScanEntries : Cardinality(ms) \in 1..MaxEntries } }

InitScan ==
  /\ IdleNES
  /\ IdleMatch
  /\ callPc = "filepath.Walk"
  /\ callArgs \in [entries : ScanDirectories, basePath : {ScanBase, ScanBase \o <<47>>},
                    enableInes : BOOLEAN, preserveTrainers : {FALSE}]
  /\ callResult = [romSlice |-> <<>>, visited |-> 0, err |-> ""]

\* the walk function is called for the next entry and returns nil
WalkEntry ==
  /\ callPc = "filepath.Walk"
  /\ callResult.visited < Len(callArgs.entries)
  /\ WalkFunc(callResult.romSlice, callArgs.entries[callResult.visited + 1],
              callArgs.enableInes, callArgs.preserveTrainers, callArgs.basePath).err = ""
  /\ callResult' =
       [romSlice |-> WalkFunc(callResult.romSlice, callArgs.entries[callResult.visited + 1],
                              callArgs.enableInes, callArgs.preserveTrainers,
                              callArgs.basePath).romSlice,
        visited |-> callResult.visited + 1,
        err |-> ""]
  /\ UNCHANGED <<callPc, callArgs, exceptCall>>

\* the walk function returns an error: the walk stops and LoadROMRecursive
\* returns no list
WalkStopped ==
  /\ callPc = "filepath.Walk"
  /\ callResult.visited < Len(callArgs.entries)
  /\ WalkFunc(callResult.romSlice, callArgs.entries[callResult.visited + 1],
              callArgs.enableInes, callArgs.preserveTrainers, callArgs.basePath).err # ""
  /\ callResult' =
       [romSlice |-> <<>>,
        visited |-> callResult.visited + 1,
        err |-> WalkFunc(callResult.romSlice, callArgs.entries[callResult.visited + 1],
                         callArgs.enableInes, callArgs.preserveTrainers,
                         callArgs.basePath).err]
  /\ callPc' = "returned"
  /\ UNCHANGED <<callArgs, exceptCall>>

\* every entry has been visited: LoadROMRecursive returns the list
WalkDone ==
  /\ callPc = "filepath.Walk"
  /\ callResult.visited = Len(callArgs.entries)
  /\ callPc' = "returned"
  /\ UNCHANGED <<callArgs, callResult, exceptCall>>

NextScan == WalkEntry \/ WalkStopped \/ WalkDone

SpecScan == InitScan /\ [][NextScan]_vars

\* the entries of the scanned directory that are files named *.nes
NesEntries ==
  SelectSeq(callArgs.entries,
            LAMBDA entry : ~entry.isDir /\ NesRegExMatches(AfterSeparator(entry.path)))

\* the error DecodeNESROM returns for the bytes of an entry
DecodeErrOf(entry) ==
  DecodeNESROM(entry.bytes, callArgs.enableInes, callArgs.preserveTrainers, <<>>).err

\* C14: in LoadROMRecursive a file whose decoding fails with a decode error
\* is skipped, no record for it is in the returned list, and the scan goes
\* on with the remaining files: the returned list holds exactly the files
\* that were decoded without an error.
C14_FailedFilesSkipped ==
  (callPc = "returned" /\ callResult.err = "")
  => /\ Len(callResult.romSlice)
          = Len(SelectSeq(NesEntries, LAMBDA entry : DecodeErrOf(entry) = ""))
     /\ \A i \in DOMAIN callResult.romSlice :
          callResult.romSlice[i].Filename
            = SelectSeq(NesEntries, LAMBDA entry : DecodeErrOf(entry) = "")[i].path

\* C14 as the code has it: a decode error never stops the scan, and the
\* returned list holds one record for every *.nes file of the walk, in the
\* order of the walk, also for a file whose decoding failed: that record has
\* the name and the path of the file, no header when the file is too short,
\* has no magic, or is iNES 1.0 with iNES off, and the hashes of the whole
\* file when the file is too short or has no magic.
C14_FailedFilesKept ==
  (callPc = "returned" /\ callResult.err = "")
  => /\ Len(callResult.romSlice) = Len(NesEntries)
     /\ \A i \in DOMAIN callResult.romSlice :
          /\ callResult.romSlice[i].Filename = NesEntries[i].path
          /\ callResult.romSlice[i].Name = RomNameOf(NesEntries[i].path)
          /\ DecodeErrOf(NesEntries[i])
               \in {"File too small to be a headered NES ROM.", "Unable to find NES magic.",
                    "Not an NES 2.0 ROM."}
             => /\ callResult.romSlice[i].Header20 = NilHeader
                /\ callResult.romSlice[i].Header10 = NilHeader
          /\ DecodeErrOf(NesEntries[i])
               \in {"File too small to be a headered NES ROM.", "Unable to find NES magic."}
             => callResult.romSlice[i].SHA256 = Digest("SHA256", NesEntries[i].bytes)

\* a scan has returned a list in which the record of a file that failed to
\* decode is followed by the record of a file that decoded
C14_ScanWentOn ==
  /\ callPc = "returned"
  /\ callResult.err = ""
  /\ \E i \in DOMAIN callResult.romSlice :
       /\ i > 1
       /\ DecodeErrOf(NesEntries[i - 1]) # ""
       /\ DecodeErrOf(NesEntries[i]) = ""
       /\ callResult.romSlice[i].Header20 # NilHeader

-----------------------------------------------------------------------------
(* FileTools/FileAccess.go: WriteROM and WriteFDSArchive                   *)
(* The file system is the set of the directories that exist and the bytes  *)
(* of the files that exist, both under their paths; the working directory  *)
(* is the empty path and always exists.                                    *)

\* the path of the directory a path lies in
ParentOf(path) ==
  IF LastIndex(path, <<47>>) = -1 THEN <<>> ELSE SubSeq(path, 1, LastIndex(path, <<47>>))

\* a directory path and the paths of the directories above it
WithAncestors(directoryPath) ==
  { SubSeq(directoryPath, 1, k) :
      k \in { j \in 1..Len(directoryPath) :
                /\ directoryPath[j] # 47
                /\ j = Len(directoryPath) \/ directoryPath[j + 1] = 47 } }

\* ioutil.WriteFile: the file is created or replaced when the directory it
\* lies in exists and no directory has its path
WriteFile(fs, path, data) ==
  IF ParentOf(path) # <<>> /\ ParentOf(path) \notin fs.dirs
  THEN [fs |-> fs, err |-> "open: no such file or directory"]
  ELSE IF path \in fs.dirs
  THEN [fs |-> fs, err |-> "open: is a directory"]
  ELSE [fs |-> [fs EXCEPT !.files = [p \in DOMAIN fs.files \cup {path} |->
                                       IF p = path THEN data ELSE fs.files[p]]],
        err |-> ""]

\* os.MkdirAll: the directory and the missing directories above it are
\* created unless a file has one of their paths
MkdirAll(fs, directoryPath) ==
  IF WithAncestors(directoryPath) \cap DOMAIN fs.files # {}
  THEN [fs |-> fs, err |-> "mkdir: not a directory"]
  ELSE [fs |-> [fs EXCEPT !.dirs = fs.dirs \cup WithAncestors(directoryPath)], err |-> ""]

\* the path a record is written to under destinationBasePath
TempRomPath(model, destinationBasePath) ==
  (IF destinationBasePath[Len(destinationBasePath)] # 47
   THEN destinationBasePath \o <<47>>
   ELSE destinationBasePath)
    \o (IF model.RelativePath = <<>> THEN model.Name \o DotNes ELSE model.RelativePath)

\* the path a record is written to without a destination base path
TempFilename(model) ==
  IF model.Filename = <<>> THEN model.Name \o DotNes ELSE model.Filename

\* the path WriteROM and WriteFDSArchive hand to ioutil.WriteFile
TargetPath(model, destinationBasePath) ==
  IF destinationBasePath = <<>> THEN TempFilename(model)
  ELSE TempRomPath(model, destinationBasePath)

\* tempRomPath[0:strings.LastIndex(tempRomPath, string(os.PathSeparator))]
DirectoryPath(model, destinationBasePath) ==
  ParentOf(TempRomPath(model, destinationBasePath))

\* the bytes and the error of the encoder a write starts with
EncodedFor(args) ==
  IF args.op = "WriteROM"
  THEN EncodeNESROM(args.model, args.enableInes, FALSE, TRUE)
  ELSE EncodeFDSArchive(args.model, args.writeFDSHeader)

-----------------------------------------------------------------------------
(* A record is written, and written again                                  *)

\* how often the same write is run
MaxRuns == 2

\* "o", "o/", "o/p"
DestinationBasePaths == { <<>>, <<111>>, <<111, 47>>, <<111, 47, 112>> }

\* the directories that exist before the first run: none, "o", "o" and "o/p",
\* "o" and "o/s", or all of "o", "o/p", "o/p/s"
InitialDirs ==
  { {}, {<<111>>}, {<<111>>, <<111, 47, 112>>}, {<<111>>, <<111, 47, 115>>},
    {<<111>>, <<111, 47, 112>>, <<111, 47, 112, 47, 115>>} }

\* the names and paths of the written record: "g", "in/g.nes", and the
\* relative paths none, "g.nes" and "s/g.nes"
WrittenNamings ==
  [Name : {<<103>>}, Filename : {<<>>, <<105, 110, 47, 103, 46, 110, 101, 115>>},
   RelativePath : {<<>>, <<103, 46, 110, 101, 115>>, <<115, 47, 103, 46, 110, 101, 115>>}]

Named(model, naming) ==
  [model EXCEPT !.Name = naming.Name, !.Filename = naming.Filename,
                !.RelativePath = naming.RelativePath]

\* the written records: an NES 2.0 record, an iNES 1.0 record, a record
\* without a header
WrittenROMs ==
  { Named(DecodeNESROM(file, TRUE, TRUE, <<>>).rom, naming) :
      file \in { NESFileOf(SmallPRG, NoCHR, PlainProfile, PayloadA),
                 INESFileOf(0, 0, <<>>), <<1, 2, 3>> },
      naming \in WrittenNamings }

WrittenArchives ==
  { Named(DecodeFDSArchive(SideOf(0, 7, FALSE), <<>>).archive, naming) :
      naming \in WrittenNamings }

WriteCalls ==
  [op : {"WriteROM"}, model : WrittenROMs, enableInes : BOOLEAN, writeFDSHeader : {FALSE},
   destinationBasePath : DestinationBasePaths]
  \cup
  [op : {"WriteFDSArchive"}, model : WrittenArchives, enableInes : {FALSE},
   writeFDSHeader : BOOLEAN, destinationBasePath : DestinationBasePaths]

InitWrite ==
  /\ IdleNES
  /\ IdleMatch
  /\ callPc = "Encode"
  /\ callArgs \in WriteCalls
  /\ \E dirs \in InitialDirs, blocked \in BOOLEAN :
       callResult = [fs |-> [dirs |-> IF blocked THEN {} ELSE dirs,
                             files |-> IF blocked THEN [p \in {<<111>>} |-> <<>>] ELSE <<>>],
                     err |-> "", run |-> 1, panic |-> FALSE]

\* the encoder fails and the write returns its error
EncodeFailed ==
  /\ callPc = "Encode"
  /\ EncodedFor(callArgs).err # ""
  /\ callResult' = [callResult EXCEPT !.err = EncodedFor(callArgs).err]
  /\ callPc' = "returned"
  /\ UNCHANGED <<callArgs, exceptCall>>

\* the encoder succeeds; with a destination base path the creation of the
\* directory is deferred to the return of the function
Encoded ==
  /\ callPc = "Encode"
  /\ EncodedFor(callArgs).err = ""
  /\ callPc' = "ioutil.WriteFile"
  /\ UNCHANGED <<callArgs, callResult, exceptCall>>

\* ioutil.WriteFile(path, bytes, 0644)
WriteTheFile ==
  /\ callPc = "ioutil.WriteFile"
  /\ callResult' =
       [callResult EXCEPT
          !.fs = WriteFile(callResult.fs,
                           TargetPath(callArgs.model, callArgs.destinationBasePath),
                           EncodedFor(callArgs).bytes).fs,
          !.err = WriteFile(callResult.fs,
                            TargetPath(callArgs.model, callArgs.destinationBasePath),
                            EncodedFor(callArgs).bytes).err]
  /\ callPc' = IF callArgs.destinationBasePath = <<>> THEN "returned" ELSE "deferred"
  /\ UNCHANGED <<callArgs, exceptCall>>

\* the deferred function: os.MkdirAll(directoryPath, os.ModeDir|0770), and a
\* panic when it fails
DeferredMkdirAll ==
  /\ callPc = "deferred"
  /\ callResult' =
       [callResult EXCEPT
          !.fs = MkdirAll(callResult.fs,
                          DirectoryPath(callArgs.model, callArgs.destinationBasePath)).fs,
          !.panic = MkdirAll(callResult.fs,
                             DirectoryPath(callArgs.model, callArgs.destinationBasePath)).err # ""]
  /\ callPc' = "returned"
  /\ UNCHANGED <<callArgs, exceptCall>>

\* the same write is run again on the file system the run before left
RunAgain ==
  /\ callPc = "returned"
  /\ ~callResult.panic
  /\ callResult.run < MaxRuns
  /\ callResult' = [callResult EXCEPT !.err = "", !.run = callResult.run + 1]
  /\ callPc' = "Encode"
  /\ UNCHANGED <<callArgs, exceptCall>>

NextWrite == EncodeFailed \/ Encoded \/ WriteTheFile \/ DeferredMkdirAll \/ RunAgain

SpecWrite == InitWrite /\ [][NextWrite]_vars

\* a write with a destination base path whose encoder has succeeded, on a
\* file system where no file has the path of a directory of the target
WritesUnderBase ==
  /\ callArgs.destinationBasePath # <<>>
  /\ EncodedFor(callArgs).err = ""
  /\ WithAncestors(DirectoryPath(callArgs.model, callArgs.destinationBasePath))
       \cap DOMAIN callResult.fs.files = {}

\* C13: WriteROM and WriteFDSArchive with a non-empty destination base path
\* create the parent directory of the target before the file write is
\* attempted, so that a write into a directory that does not exist yet
\* succeeds on the first run, and the directory exists on every exit path of
\* the write.
C13_DirectoryBeforeWrite ==
  WritesUnderBase
  => /\ callPc = "ioutil.WriteFile"
          => DirectoryPath(callArgs.model, callArgs.destinationBasePath) \in callResult.fs.dirs
     /\ callPc = "returned"
          => /\ callResult.err = ""
             /\ DirectoryPath(callArgs.model, callArgs.destinationBasePath)
                  \in callResult.fs.dirs

\* what the code does: the directory is created when the function returns,
\* after the write was attempted, so it exists whenever the write has
\* returned, and the write succeeds on the second run at the latest
C13_DirectoryAfterWrite ==
  (WritesUnderBase /\ callPc = "returned")
  => /\ DirectoryPath(callArgs.model, callArgs.destinationBasePath) \in callResult.fs.dirs
     /\ callResult.run > 1 => callResult.err = ""

-----------------------------------------------------------------------------
(* The editheaderfield command of the main program                         *)

\* strconv.ParseUint(value, 10, 64) for a value of a few characters: the
\* number, and whether the value is a decimal number at all
RECURSIVE ParseDigits(_, _)
ParseDigits(value, acc) ==
  IF value = <<>> THEN acc
  ELSE ParseDigits(Tail(value), (10 * acc) + (Head(value) - 48))

ParseUint(value) ==
  IF value # <<>> /\ \A i \in DOMAIN value : value[i] \in 48..57
  THEN [paramInt |-> ParseDigits(value, 0), strConvErr |-> FALSE]
  ELSE [paramInt |-> 0, strConvErr |-> TRUE]

\* the words the fields that are not numbers take
WordTrue == <<116, 114, 117, 101>>

WordFalse == <<102, 97, 108, 115, 101>>

WordVertical == <<118, 101, 114, 116, 105, 99, 97, 108>>

WordHorizontal == <<104, 111, 114, 105, 122, 111, 110, 116, 97, 108>>

WordPal == <<112, 97, 108>>

WordNtsc == <<110, 116, 115, 99>>

\* the ways the command ends without writing: os.Exit(1) after a message,
\* and a panic
Exited(nesRom) == [rom |-> nesRom, exit |-> "os.Exit(1)"]

Panicked(nesRom) == [rom |-> nesRom, exit |-> "panic"]

Edited(nesRom) == [rom |-> nesRom, exit |-> ""]

With20(nesRom, member, v) == [nesRom EXCEPT !.Header20 = [@ EXCEPT ![member] = v]]

With10(nesRom, member, v) == [nesRom EXCEPT !.Header10 = [@ EXCEPT ![member] = v]]

\* the NES 2.0-only number fields that are checked against a largest value only
LimitedFields ==
  {"prg-nvram-size", "chr-ram-size", "chr-nvram-size", "number-of-misc-roms",
   "submapper-number", "cpu-ppu-timing", "default-expansion"}

LimitedMember(romFieldName) ==
  CASE romFieldName = "prg-nvram-size" -> "PRGNVRAMSize"
    [] romFieldName = "chr-ram-size" -> "CHRRAMSize"
    [] romFieldName = "chr-nvram-size" -> "CHRNVRAMSize"
    [] romFieldName = "number-of-misc-roms" -> "MiscROMs"
    [] romFieldName = "submapper-number" -> "SubMapper"
    [] romFieldName = "cpu-ppu-timing" -> "CPUPPUTiming"
    [] romFieldName = "default-expansion" -> "DefaultExpansion"

\* the chr-ram-size case accepting 0-15, as the usage text has it
LimitedMaxDocumented(romFieldName) ==
  CASE romFieldName \in {"prg-nvram-size", "chr-ram-size", "chr-nvram-size",
                         "submapper-number"} -> 15
    [] romFieldName \in {"number-of-misc-roms", "cpu-ppu-timing"} -> 3
    [] romFieldName = "default-expansion" -> 63

LimitedMax(romFieldName) ==
  CASE romFieldName \in {"prg-nvram-size", "chr-nvram-size", "submapper-number"} -> 15
    [] romFieldName = "chr-ram-size" -> 255
    [] romFieldName \in {"number-of-misc-roms", "cpu-ppu-timing"} -> 3
    [] romFieldName = "default-expansion" -> 63

EditLimited(nesRom, romFieldName, parsed) ==
  IF nesRom.Header20 = NilHeader THEN Exited(nesRom)
  ELSE IF parsed.strConvErr THEN Panicked(nesRom)
  ELSE IF parsed.paramInt > LimitedMax(romFieldName) THEN Exited(nesRom)
  ELSE Edited(With20(nesRom, LimitedMember(romFieldName), parsed.paramInt % 256))

\* prg-rom-byte-size and chr-rom-byte-size
EditByteSize(nesRom, romFieldName, parsed) ==
  IF parsed.strConvErr THEN Panicked(nesRom)
  ELSE IF nesRom.Header20 = NilHeader /\ nesRom.Header10 = NilHeader THEN Exited(nesRom)
  ELSE IF romFieldName = "prg-rom-byte-size"
  THEN Edited(UpdateSizes(nesRom, parsed.paramInt,
                          IF nesRom.Header20 # NilHeader
                          THEN nesRom.Header20.CHRROMCalculatedSize
                          ELSE nesRom.Header10.CHRROMCalculatedSize))
  ELSE Edited(UpdateSizes(nesRom,
                          IF nesRom.Header20 # NilHeader
                          THEN nesRom.Header20.PRGROMCalculatedSize
                          ELSE nesRom.Header10.PRGROMCalculatedSize,
                          parsed.paramInt))

\* prg-ram-size and mapper-number: a limit for each header variant
EditEitherHeader(nesRom, member, parsed, max20, max10) ==
  IF parsed.strConvErr THEN Panicked(nesRom)
  ELSE IF nesRom.Header20 # NilHeader
  THEN IF parsed.paramInt > max20 THEN Exited(nesRom)
       ELSE Edited(With20(nesRom, member, parsed.paramInt))
  ELSE IF nesRom.Header10 # NilHeader
  THEN IF parsed.paramInt > max10 THEN Exited(nesRom)
       ELSE Edited(With10(nesRom, member, parsed.paramInt))
  ELSE Exited(nesRom)

\* has-trainer, mirroring-type, four-screen, has-battery
EditFlag(nesRom, member, romFieldValue, wordSet, wordClear) ==
  IF romFieldValue # wordSet /\ romFieldValue # wordClear THEN Exited(nesRom)
  ELSE IF nesRom.Header20 # NilHeader
  THEN Edited(With20(nesRom, member, romFieldValue = wordSet))
  ELSE IF nesRom.Header10 # NilHeader
  THEN Edited(With10(nesRom, member, romFieldValue = wordSet))
  ELSE Exited(nesRom)

\* vs-unisystem, playchoice-10, tv-system
EditFlag10(nesRom, member, romFieldValue, wordSet, wordClear) ==
  IF nesRom.Header10 = NilHeader THEN Exited(nesRom)
  ELSE IF romFieldValue # wordSet /\ romFieldValue # wordClear THEN Exited(nesRom)
  ELSE Edited(With10(nesRom, member, romFieldValue = wordSet))

\* console-type without the clearing of the fields of the other console types
EditConsoleTypeOnly(nesRom, parsed) ==
  IF nesRom.Header20 = NilHeader THEN Exited(nesRom)
  ELSE IF parsed.strConvErr THEN Panicked(nesRom)
  ELSE IF parsed.paramInt > 3 THEN Exited(nesRom)
  ELSE Edited(With20(nesRom, "ConsoleType", parsed.paramInt))

\* console-type: the fields of the other console types are cleared
EditConsoleType(nesRom, parsed) ==
  IF nesRom.Header20 = NilHeader THEN Exited(nesRom)
  ELSE IF parsed.strConvErr THEN Panicked(nesRom)
  ELSE IF parsed.paramInt > 3 THEN Exited(nesRom)
  ELSE Edited([nesRom EXCEPT !.Header20 =
                 [@ EXCEPT !.ExtendedConsoleType = IF parsed.paramInt = 3 THEN @ ELSE 0,
                           !.VsHardwareType = IF parsed.paramInt = 1 THEN @ ELSE 0,
                           !.VsPPUType = IF parsed.paramInt = 1 THEN @ ELSE 0,
                           !.ConsoleType = parsed.paramInt]])

\* extended-console-type, vs-hardware-type, vs-ppu-type: fields of one console type
EditOfConsole(nesRom, member, parsed, consoleType, min, max) ==
  IF nesRom.Header20 = NilHeader THEN Exited(nesRom)
  ELSE IF nesRom.Header20.ConsoleType # consoleType THEN Exited(nesRom)
  ELSE IF parsed.strConvErr THEN Panicked(nesRom)
  ELSE IF parsed.paramInt < min \/ parsed.paramInt > max THEN Exited(nesRom)
  ELSE Edited(With20(nesRom, member, parsed.paramInt))

\* switch *romFieldName
EditSwitch(nesRom, romFieldName, romFieldValue) ==
  CASE romFieldName \in {"prg-rom-byte-size", "chr-rom-byte-size"} ->
         EditByteSize(nesRom, romFieldName, ParseUint(romFieldValue))
    [] romFieldName = "prg-ram-size" ->
         EditEitherHeader(nesRom, "PRGRAMSize", ParseUint(romFieldValue), 15, 255)
    [] romFieldName = "mapper-number" ->
         EditEitherHeader(nesRom, "Mapper", ParseUint(romFieldValue), 4095, 255)
    [] romFieldName \in LimitedFields ->
         EditLimited(nesRom, romFieldName, ParseUint(romFieldValue))
    [] romFieldName = "has-trainer" ->
         EditFlag(nesRom, "Trainer", romFieldValue, WordTrue, WordFalse)
    [] romFieldName = "mirroring-type" ->
         EditFlag(nesRom, "MirroringType", romFieldValue, WordVertical, WordHorizontal)
    [] romFieldName = "four-screen" ->
         EditFlag(nesRom, "FourScreen", romFieldValue, WordTrue, WordFalse)
    [] romFieldName = "has-battery" ->
         EditFlag(nesRom, "Battery", romFieldValue, WordTrue, WordFalse)
    [] romFieldName = "console-type" -> EditConsoleType(nesRom, ParseUint(romFieldValue))
    [] romFieldName = "extended-console-type" ->
         EditOfConsole(nesRom, "ExtendedConsoleType", ParseUint(romFieldValue), 3, 3, 15)
    [] romFieldName = "vs-hardware-type" ->
         EditOfConsole(nesRom, "VsHardwareType", ParseUint(romFieldValue), 1, 0, 15)
    [] romFieldName = "vs-ppu-type" ->
         EditOfConsole(nesRom, "VsPPUType", ParseUint(romFieldValue), 1, 0, 15)
    [] romFieldName = "vs-unisystem" ->
         EditFlag10(nesRom, "VsUnisystem", romFieldValue, WordTrue, WordFalse)
    [] romFieldName = "playchoice-10" ->
         EditFlag10(nesRom, "PlayChoice10", romFieldValue, WordTrue, WordFalse)
    [] romFieldName = "tv-system" ->
         EditFlag10(nesRom, "TVSystem", romFieldValue, WordPal, WordNtsc)
    [] OTHER -> Exited(nesRom)

\* filepath.Dir of a path of plain elements
FilepathDir(path) == IF ParentOf(path) = <<>> THEN <<46>> ELSE ParentOf(path)

\* the record as it is handed to WriteROM: named after the output file
ForOutput(nesRom, outputFileName) ==
  [nesRom EXCEPT !.Name = SubSeq(outputFileName, 1, LastIndex(outputFileName, <<46>>)),
                 !.RelativePath = outputFileName]

\* WriteROM(nesRom, true, false, true, outputFilePath) with a destination base
\* path: the file system it leaves and the error it returns
WriteROM(fs, romModel, destinationBasePath) ==
  IF EncodeNESROM(romModel, TRUE, FALSE, TRUE).err # ""
  THEN [fs |-> fs, err |-> EncodeNESROM(romModel, TRUE, FALSE, TRUE).err]
  ELSE [fs |-> MkdirAll(WriteFile(fs, TempRomPath(romModel, destinationBasePath),
                                  EncodeNESROM(romModel, TRUE, FALSE, TRUE).bytes).fs,
                        DirectoryPath(romModel, destinationBasePath)).fs,
        err |-> WriteFile(fs, TempRomPath(romModel, destinationBasePath),
                          EncodeNESROM(romModel, TRUE, FALSE, TRUE).bytes).err]

-----------------------------------------------------------------------------
(* One field of one file is edited                                         *)

\* "g.nes", the input file in the working directory
EditInputPath == <<103>> \o DotNes

\* the edited files: NES 2.0 of console type 0, 1 and 3, iNES 1.0, and a file
\* too short to be decoded
EditInputs ==
  { NESFileOf(SmallPRG, NoCHR, PlainProfile, PayloadA),
    NESFileOf(SmallPRG, NoCHR, VsProfile, PayloadA),
    [NESFileOf(SmallPRG, NoCHR, PlainProfile, PayloadA) EXCEPT ![8] = 11],
    INESFileOf(0, 0, <<>>),
    <<1, 2, 3>> }

EditFieldNames ==
  {"prg-rom-byte-size", "chr-rom-byte-size", "prg-ram-size", "mapper-number",
   "has-trainer", "mirroring-type", "four-screen", "has-battery", "console-type",
   "extended-console-type", "vs-hardware-type", "vs-ppu-type", "vs-unisystem",
   "playchoice-10", "tv-system", "no-such-field"} \cup LimitedFields

\* the values: the numbers at both sides of every limit, the words, and a
\* word no field takes
EditValues ==
  { Itoa(n) : n \in {0, 2, 3, 4, 15, 16, 63, 64, 255, 256, 4095, 4096} }
  \cup {WordTrue, WordFalse, WordVertical, WordHorizontal, WordPal, WordNtsc, <<120>>}

\* the output files: "h.nes" and "o/h.nes"
EditOutputs == { <<104>> \o DotNes, <<111, 47, 104>> \o DotNes }

InitEdit ==
  /\ IdleNES
  /\ IdleMatch
  /\ callPc = "LoadROM"
  /\ callArgs \in [inputRom : EditInputs, romFieldName : EditFieldNames,
                    romFieldValue : EditValues, outputRom : EditOutputs]
  /\ \E dirs \in { {<<46>>}, {<<46>>, <<111>>} } :
       callResult = [nesRom |-> NilROM, fs |-> [dirs |-> dirs, files |-> <<>>], exit |-> ""]

\* the input file is loaded with iNES enabled and the trainer preserved; the
\* command panics on every error of LoadROM
EditLoad ==
  /\ callPc = "LoadROM"
  /\ LET loaded == LoadROM([path |-> EditInputPath, isDir |-> FALSE, readable |-> TRUE,
                            bytes |-> callArgs.inputRom],
                           TRUE, TRUE, FilepathDir(EditInputPath))
     IN IF loaded.err # ""
        THEN /\ callResult' = [callResult EXCEPT !.exit = "panic"]
             /\ callPc' = "exited"
        ELSE /\ callResult' = [callResult EXCEPT !.nesRom = loaded.rom]
             /\ callPc' = "switch"
  /\ UNCHANGED <<callArgs, exceptCall>>

\* the field is checked and set
EditField ==
  /\ callPc = "switch"
  /\ LET edited == EditSwitch(callResult.nesRom, callArgs.romFieldName, callArgs.romFieldValue)
     IN /\ callResult' = [callResult EXCEPT !.nesRom = edited.rom, !.exit = edited.exit]
        /\ callPc' = IF edited.exit = "" THEN "WriteROM" ELSE "exited"
  /\ UNCHANGED <<callArgs, exceptCall>>

\* the record is written under the name of the output file; the command panics
\* on an error of WriteROM
EditWrite ==
  /\ callPc = "WriteROM"
  /\ LET written == WriteROM(callResult.fs,
                             ForOutput(callResult.nesRom, AfterSeparator(callArgs.outputRom)),
                             FilepathDir(callArgs.outputRom))
     IN /\ callResult' = [callResult EXCEPT
                            !.nesRom = ForOutput(callResult.nesRom,
                                                 AfterSeparator(callArgs.outputRom)),
                            !.fs = written.fs,
                            !.exit = IF written.err = "" THEN "" ELSE "panic"]
        /\ callPc' = IF written.err = "" THEN "returned" ELSE "exited"
  /\ UNCHANGED <<callArgs, exceptCall>>

NextEdit == EditLoad \/ EditField \/ EditWrite

SpecEdit == InitEdit /\ [][NextEdit]_vars

\* the header variant of the edited record: 20, 10, or 0 before it is loaded
EditedVariant ==
  IF callResult.nesRom = NilROM THEN 0
  ELSE IF callResult.nesRom.Header20 # NilHeader THEN 20
  ELSE IF callResult.nesRom.Header10 # NilHeader THEN 10
  ELSE 0

\* the numbers the usage text of the command documents for a field
DocumentedRange(romFieldName, variant) ==
  CASE romFieldName = "prg-ram-size" -> IF variant = 20 THEN 0..15 ELSE 0..255
    [] romFieldName = "mapper-number" -> IF variant = 20 THEN 0..4095 ELSE 0..255
    [] romFieldName = "console-type" -> 0..3
    [] romFieldName = "extended-console-type" -> 3..15
    [] romFieldName \in {"vs-hardware-type", "vs-ppu-type"} -> 0..15
    [] romFieldName \in LimitedFields -> 0..LimitedMaxDocumented(romFieldName)

\* the fields of one header variant only
OnlyIn20 ==
  LimitedFields
    \cup {"console-type", "extended-console-type", "vs-hardware-type", "vs-ppu-type"}

OnlyIn10 == {"vs-unisystem", "playchoice-10", "tv-system"}

\* the value is a number outside the documented range of the field, or the
\* field is not a field of the header variant of the record
RefusedByTheText ==
  /\ EditedVariant # 0
  /\ \/ /\ callArgs.romFieldName \in OnlyIn20 \cup {"prg-ram-size", "mapper-number"}
        /\ ~ParseUint(callArgs.romFieldValue).strConvErr
        /\ ParseUint(callArgs.romFieldValue).paramInt
             \notin DocumentedRange(callArgs.romFieldName, EditedVariant)
     \/ callArgs.romFieldName \in OnlyIn20 /\ EditedVariant = 10
     \/ callArgs.romFieldName \in OnlyIn10 /\ EditedVariant = 20

\* C15: in editheaderfield a value outside the documented range of the
\* named field (prg-ram-size, prg-nvram-size, chr-ram-size and chr-nvram-size
\* 0-15 on NES 2.0, number-of-misc-roms 0-3, console-type 0-3, mapper-number
\* 0-4095 or 0-255, default-expansion 0-63, ...) makes the command fail, and
\* no output file is written; a field that the header variant of the record
\* does not have fails the same way.
C15_OutOfRangeFails ==
  RefusedByTheText
  => /\ callPc \notin {"WriteROM", "returned"}
     /\ DOMAIN callResult.fs.files = {}

\* the same for every field but chr-ram-size, which the code refuses above
\* 255 only
C15_OutOfRangeFailsButCHRRAM ==
  (RefusedByTheText /\ callArgs.romFieldName # "chr-ram-size")
  => /\ callPc \notin {"WriteROM", "returned"}
     /\ DOMAIN callResult.fs.files = {}

-----------------------------------------------------------------------------
(* FDSTool/FDSTool.go: the blocks of a disk side                           *)
(* DecodeFDSSide and EncodeFDSSide in full: the disk info block, the file  *)
(* layout block, the file header and file data blocks, the CRC of every    *)
(* block in the layout that carries them, and the unallocated space. The   *)
(* offsets are those of the disk; a side is BlockSideSize bytes long (36   *)
(* more in a QD image), so that the unallocated space is short.            *)

\* FDS_SIDE_SIZE of a side with its blocks
BlockSideSize == 140

\* QD_SIDE_SIZE of a side with its blocks
BlockQdSideSize == BlockSideSize + 36

FDS_DISK_FILE_LAYOUT_BLOCK == 2

FDS_FILE_HEADER_BLOCK == 3

FDS_FILE_DATA_BLOCK == 4

\* conversion to uint16
Uint16Of(n) == n % 65536

\* binary.LittleEndian.Uint16 reads the first two bytes of its argument
LittleEndianUint16(b) == b[1] + 256 * b[2]

\* binary.LittleEndian.PutUint16
PutUint16(v) == <<v % 256, v \div 256>>

\* workingCrc ^ 0x8408: bits 15, 10 and 3 are turned over
Xor8408(v) ==
  LET flip(w, k) == IF (w \div (2 ^ k)) % 2 = 1 THEN w - 2 ^ k ELSE w + 2 ^ k
  IN flip(flip(flip(v, 15), 10), 3)

\* one bit of the block is shifted into the register from the top
CRCBit(workingCrc, workingBit) ==
  IF workingCrc % 2 = 1
  THEN Xor8408((workingCrc \div 2) + workingBit * 32768)
  ELSE (workingCrc \div 2) + workingBit * 32768

\* the eight bits of a byte, the lowest first
CRCByte(workingCrc, tempByte) ==
  LET bit(k) == (tempByte \div (2 ^ k)) % 2
  IN CRCBit(CRCBit(CRCBit(CRCBit(CRCBit(CRCBit(CRCBit(CRCBit(workingCrc,
       bit(0)), bit(1)), bit(2)), bit(3)), bit(4)), bit(5)), bit(6)), bit(7))

\* the bytes of the block from index on, the last two of them taken as zero;
\* workingCrc is a uint16
RECURSIVE CRCFrom(_, _, _)
CRCFrom(workingCrc, rawBlock, index) ==
  IF workingCrc \in 0..65535 /\ index <= Len(rawBlock)
  THEN CRCFrom(CRCByte(workingCrc,
                       IF index <= Len(rawBlock) - 2 THEN rawBlock[index] ELSE 0),
               rawBlock, index + 1)
  ELSE workingCrc

\* GenerateFDSBlockCRC: the register starts as 0x8000
GenerateFDSBlockCRC(rawBlock) ==
  IF Len(rawBlock) < 3
  THEN [crc |-> 0, err |-> "Data too small to be a valid FDS block."]
  ELSE [crc |-> CRCFrom(32768, rawBlock, 1), err |-> ""]

\* &FDSSide{} as DecodeFDSSide fills it. Fields holds the bytes 0x0f to 0x37
\* of the disk info block in their order (manufacturer code, game name, ...,
\* price): DecodeFDSSide reads every one of them into a field of its own and
\* EncodeFDSSide writes the fields back in the same order. The disk number
\* (0x16) and the serial number of the disk writer (0x31, 0x32) are kept
\* apart.
NewFDSSide ==
  [Fields |-> <<>>, DiskNumber |-> 0, DiskWriterSerialNumber |-> 0,
   DiskInfoCRC |-> 0, FileTableCRC |-> 0, SideFiles |-> <<>>,
   UnallocatedSpace |-> <<>>, UnallocatedSpaceOffset |-> 0]

\* the CRC of the disk info block as DecodeFDSSide computes it
TestCrc(inputSide) == GenerateFDSBlockCRC(Slice(inputSide, 0, 56) \o <<0, 0>>).crc

\* readChecksums: the two bytes at 0x38 are the CRC of the disk info block and
\* the byte at 0x3a is 1, or the three bytes are 00 00 01
ReadChecksums(inputSide) ==
  \/ /\ inputSide[59] = 1
     /\ LittleEndianUint16(Slice(inputSide, 56, 58)) = TestCrc(inputSide)
  \/ Slice(inputSide, 56, 59) = <<0, 0, 1>>

\* tempSide.DiskInfoCRC
DiskInfoCRCOf(inputSide, generateChecksums) ==
  IF /\ inputSide[59] = 1
     /\ LittleEndianUint16(Slice(inputSide, 56, 58)) = TestCrc(inputSide)
  THEN TestCrc(inputSide)
  ELSE IF Slice(inputSide, 56, 59) = <<0, 0, 1>>
  THEN IF ~generateChecksums THEN LittleEndianUint16(Slice(inputSide, 56, 58))
       ELSE TestCrc(inputSide)
  ELSE IF generateChecksums THEN TestCrc(inputSide)
  ELSE 0

\* tempSide.FileTableCRC
FileTableCRCOf(inputSide, generateChecksums, checksumOffset) ==
  IF generateChecksums
  THEN GenerateFDSBlockCRC(Slice(inputSide, 56 + checksumOffset, 58 + checksumOffset)
                             \o <<0, 0>>).crc
  ELSE IF checksumOffset = 2
  THEN LittleEndianUint16(Slice(inputSide, 56 + checksumOffset, 58 + checksumOffset))
  ELSE 0

\* tempFile.FileSize of the file header block at currentIndex
FileSizeAt(inputSide, currentIndex) ==
  LittleEndianUint16(Slice(inputSide, currentIndex + 13, currentIndex + 15))

\* the two ends of the data of the file at currentIndex, in uint16
DataLow(currentIndex, checksumOffset) == Uint16Of(currentIndex + 17 + checksumOffset)

DataHigh(inputSide, currentIndex, checksumOffset) ==
  Uint16Of(currentIndex + 17 + FileSizeAt(inputSide, currentIndex) + checksumOffset)

\* the error that ends the reading of the file at currentIndex: the block
\* codes of the file header block and of the file data block are checked. A
\* side holds fewer than 65520 bytes here, so that the sums that address the
\* header stay in uint16; the end of the data does not when FileSize is
\* large. An index or a slice behind the side stops the program (a slice
\* does when the side is the last one of the file).
FileError(inputSide, checksumOffset, currentIndex) ==
  IF currentIndex >= Len(inputSide)
  THEN "panic: index out of range"
  ELSE IF inputSide[currentIndex + 1] # FDS_FILE_HEADER_BLOCK
  THEN "Unable to read file header."
  ELSE IF currentIndex + 16 + checksumOffset >= Len(inputSide)
  THEN "panic: index out of range"
  ELSE IF inputSide[currentIndex + 16 + checksumOffset + 1] # FDS_FILE_DATA_BLOCK
  THEN "Unable to read file data."
  ELSE IF \/ DataHigh(inputSide, currentIndex, checksumOffset)
               < DataLow(currentIndex, checksumOffset)
          \/ DataHigh(inputSide, currentIndex, checksumOffset) + checksumOffset
               > Len(inputSide)
  THEN "panic: slice bounds out of range"
  ELSE ""

\* &FDSFileData{} with the data of a file
FileDataOf(FileData, FileDataCRC) ==
  [FileData |-> FileData, FileDataCRC |-> FileDataCRC, Size |-> Len(FileData),
   CRC32 |-> Digest("CRC32", FileData), MD5 |-> Digest("MD5", FileData),
   SHA1 |-> Digest("SHA1", FileData), SHA256 |-> Digest("SHA256", FileData)]

\* tempFileData.FileDataCRC
FileDataCRCOf(inputSide, generateChecksums, checksumOffset, dataLow, dataHigh) ==
  IF generateChecksums
  THEN GenerateFDSBlockCRC(<<FDS_FILE_DATA_BLOCK>> \o Slice(inputSide, dataLow, dataHigh)
                             \o <<0, 0>>).crc
  ELSE IF checksumOffset = 2
  THEN LittleEndianUint16(Slice(inputSide, dataHigh, dataHigh + 2))
  ELSE 0

\* tempFile.FileMetadataCRC
FileMetadataCRCOf(inputSide, generateChecksums, checksumOffset, currentIndex) ==
  IF generateChecksums
  THEN GenerateFDSBlockCRC(Slice(inputSide, currentIndex, currentIndex + 16)
                             \o <<0, 0>>).crc
  ELSE IF checksumOffset = 2
  THEN LittleEndianUint16(Slice(inputSide, currentIndex + 16, currentIndex + 18))
  ELSE 0

\* &FDSFile{} of the file at currentIndex, which has been read without error
DecodeFDSFile(inputSide, generateChecksums, checksumOffset, currentIndex) ==
  [FileNumber |-> inputSide[currentIndex + 2],
   FileIdentificationCode |-> inputSide[currentIndex + 3],
   FileName |-> Slice(inputSide, currentIndex + 3, currentIndex + 11),
   FileAddress |-> LittleEndianUint16(Slice(inputSide, currentIndex + 11, currentIndex + 13)),
   FileSize |-> FileSizeAt(inputSide, currentIndex),
   FileType |-> inputSide[currentIndex + 16],
   FileMetadataCRC |->
     FileMetadataCRCOf(inputSide, generateChecksums, checksumOffset, currentIndex),
   FileData |->
     FileDataOf(Slice(inputSide, DataLow(currentIndex, checksumOffset),
                      DataHigh(inputSide, currentIndex, checksumOffset)),
                FileDataCRCOf(inputSide, generateChecksums, checksumOffset,
                              DataLow(currentIndex, checksumOffset),
                              DataHigh(inputSide, currentIndex, checksumOffset)))]

\* the loop over the files of the side: the files read, the index behind the
\* last of them, and the error that ended the loop
RECURSIVE DecodeFDSFiles(_, _, _, _, _, _)
DecodeFDSFiles(inputSide, generateChecksums, checksumOffset, numberOfFiles, currentIndex, SideFiles) ==
  IF Len(SideFiles) = numberOfFiles
  THEN [SideFiles |-> SideFiles, currentIndex |-> currentIndex, err |-> ""]
  ELSE IF FileError(inputSide, checksumOffset, currentIndex) # ""
  THEN [SideFiles |-> SideFiles, currentIndex |-> currentIndex,
        err |-> FileError(inputSide, checksumOffset, currentIndex)]
  ELSE DecodeFDSFiles(
         inputSide, generateChecksums, checksumOffset, numberOfFiles,
         Uint16Of(currentIndex + 15 + 2 + FileSizeAt(inputSide, currentIndex)
                    + 2 * checksumOffset),
         Append(SideFiles,
                DecodeFDSFile(inputSide, generateChecksums, checksumOffset, currentIndex)))

\* the side with the files read and the bytes behind the last file up to the
\* size of an FDS side
DecodedSide(inputSide, generateChecksums, checksumOffset, files) ==
  IF files.err # ""
  THEN [side |-> NewFDSSide, err |-> files.err]
  ELSE [side |->
          [Fields |-> Slice(inputSide, 15, 56),
           DiskNumber |-> inputSide[23],
           DiskWriterSerialNumber |-> LittleEndianUint16(Slice(inputSide, 49, 52)),
           DiskInfoCRC |-> DiskInfoCRCOf(inputSide, generateChecksums),
           FileTableCRC |-> FileTableCRCOf(inputSide, generateChecksums, checksumOffset),
           SideFiles |-> files.SideFiles,
           UnallocatedSpace |->
             IF files.currentIndex < Uint16Of(BlockSideSize)
             THEN Slice(inputSide, files.currentIndex, BlockSideSize)
             ELSE <<>>,
           UnallocatedSpaceOffset |->
             IF files.currentIndex < Uint16Of(BlockSideSize) THEN files.currentIndex ELSE 0],
        err |-> ""]

\* the side in the layout found: the block code of the file layout block is
\* checked and the files are read
DecodeLayout(inputSide, generateChecksums, checksumOffset) ==
  IF inputSide[56 + checksumOffset + 1] # FDS_DISK_FILE_LAYOUT_BLOCK
  THEN [side |-> NewFDSSide, err |-> "Unable to determine number of files on FDS side."]
  ELSE DecodedSide(inputSide, generateChecksums, checksumOffset,
                   DecodeFDSFiles(inputSide, generateChecksums, checksumOffset,
                                  inputSide[57 + checksumOffset + 1],
                                  58 + 2 * checksumOffset, <<>>))

\* DecodeFDSSide
DecodeSideBlocks(inputSide, generateChecksums) ==
  IF inputSide[1] # FDS_DISK_INFO_BLOCK
  THEN [side |-> NewFDSSide, err |-> "Unable to decode header for FDS side."]
  ELSE DecodeLayout(inputSide, generateChecksums,
                    IF ReadChecksums(inputSide) THEN 2 ELSE 0)

\* a block and, when checksums are written, its two CRC bytes: the stored
\* value or the one generated from the block
WithBlockCRC(block, storedCrc, writeChecksums, generateChecksums) ==
  IF ~writeChecksums THEN block
  ELSE IF generateChecksums
  THEN block \o PutUint16(GenerateFDSBlockCRC(block \o <<0, 0>>).crc)
  ELSE block \o PutUint16(storedCrc)

\* the file header block and the file data block of one file
EncodeFDSFile(file, writeChecksums, generateChecksums) ==
  WithBlockCRC(<<FDS_FILE_HEADER_BLOCK, file.FileNumber, file.FileIdentificationCode>>
                 \o file.FileName \o PutUint16(file.FileAddress)
                 \o PutUint16(file.FileSize) \o <<file.FileType>>,
               file.FileMetadataCRC, writeChecksums, generateChecksums)
    \o WithBlockCRC(<<FDS_FILE_DATA_BLOCK>> \o file.FileData.FileData,
                    file.FileData.FileDataCRC, writeChecksums, generateChecksums)

\* the files of the side from index on
RECURSIVE EncodeFDSFiles(_, _, _, _)
EncodeFDSFiles(SideFiles, index, writeChecksums, generateChecksums) ==
  IF index > Len(SideFiles) THEN <<>>
  ELSE EncodeFDSFile(SideFiles[index], writeChecksums, generateChecksums)
         \o EncodeFDSFiles(SideFiles, index + 1, writeChecksums, generateChecksums)

\* the blocks of the side: disk info, file layout, and the files
EncodeFDSBlocks(inputSide, writeChecksums, generateChecksums) ==
  WithBlockCRC(<<FDS_DISK_INFO_BLOCK>> \o FDS_MAGIC
                 \o [i \in DOMAIN inputSide.Fields |->
                       IF i = 8 THEN inputSide.DiskNumber
                       ELSE IF i = 35 THEN inputSide.DiskWriterSerialNumber % 256
                       ELSE IF i = 36 THEN inputSide.DiskWriterSerialNumber \div 256
                       ELSE inputSide.Fields[i]],
               inputSide.DiskInfoCRC, writeChecksums, generateChecksums)
    \o WithBlockCRC(<<FDS_DISK_FILE_LAYOUT_BLOCK, Len(inputSide.SideFiles) % 256>>,
                    inputSide.FileTableCRC, writeChecksums, generateChecksums)
    \o EncodeFDSFiles(inputSide.SideFiles, 1, writeChecksums, generateChecksums)

\* the unallocated space behind the blocks: a gap up to its offset is filled
\* with zeros, and the part of it the blocks have grown over is left out
WithUnallocatedSpace(sideSlice, UnallocatedSpace, UnallocatedSpaceOffset) ==
  IF Uint16Of(Len(sideSlice)) < UnallocatedSpaceOffset
  THEN sideSlice
         \o [i \in 1..(UnallocatedSpaceOffset - Uint16Of(Len(sideSlice))) |-> 0]
         \o UnallocatedSpace
  ELSE IF /\ Uint16Of(Len(sideSlice)) > UnallocatedSpaceOffset
          /\ Uint16Of(Len(sideSlice))
               < Uint16Of(UnallocatedSpaceOffset + Uint16Of(Len(UnallocatedSpace)))
  THEN sideSlice
         \o Slice(UnallocatedSpace, Uint16Of(Len(sideSlice)) - UnallocatedSpaceOffset,
                  Len(UnallocatedSpace))
  ELSE sideSlice \o UnallocatedSpace

\* a side that is filled with zeros and never cut
PadOnly(sideSlice, sideSize) ==
  IF Len(sideSlice) < sideSize
  THEN sideSlice \o [i \in 1..(sideSize - Len(sideSlice)) |-> 0]
  ELSE sideSlice

\* the side brought to the side size: filled with zeros or cut
PadOrTruncate(sideSlice, sideSize) ==
  IF Len(sideSlice) < sideSize
  THEN sideSlice \o [i \in 1..(sideSize - Len(sideSlice)) |-> 0]
  ELSE IF Len(sideSlice) > sideSize
  THEN SubSeq(sideSlice, 1, sideSize)
  ELSE sideSlice

\* the side before it is brought to the side size
UnpaddedSide(inputSide, writeChecksums, generateChecksums) ==
  WithUnallocatedSpace(EncodeFDSBlocks(inputSide, writeChecksums, generateChecksums),
                       inputSide.UnallocatedSpace, inputSide.UnallocatedSpaceOffset)

\* EncodeFDSSide
EncodeSideBlocks(inputSide, writeChecksums, generateChecksums, writeQd) ==
  PadOrTruncate(UnpaddedSide(inputSide, writeChecksums, generateChecksums),
                IF writeQd THEN BlockQdSideSize ELSE BlockSideSize)

-----------------------------------------------------------------------------
(* A side is written by EncodeFDSSide and read back by DecodeFDSSide       *)

\* largest number of files on a side
MaxFiles == 2

\* "KYOTSU  "
FileNameKyotsu == <<75, 89, 79, 84, 83, 85, 32, 32>>

\* a file with the given data, loaded at 0x6000; the stored CRCs are zero
FileOf(FileNumber, FileData) ==
  [FileNumber |-> FileNumber, FileIdentificationCode |-> FileNumber,
   FileName |-> FileNameKyotsu, FileAddress |-> 24576, FileSize |-> Len(FileData),
   FileType |-> 0, FileMetadataCRC |-> 0, FileData |-> FileDataOf(FileData, 0)]

\* the file lists of a side
SideFileLists ==
  UNION { { [index \in 1..n |-> FileOf(index - 1, payloads[index])] :
              payloads \in [1..n -> {<<>>, <<9, 8>>}] } : n \in 0..MaxFiles }

\* a side of disk 1 with the given files and unallocated space
SideWith(SideFiles, UnallocatedSpace, UnallocatedSpaceOffset) ==
  [NewFDSSide EXCEPT
     !.Fields = [i \in 1..41 |-> IF i = 8 \/ i = 35 THEN 1 ELSE IF i = 36 THEN 2 ELSE 7],
     !.DiskNumber = 1, !.DiskWriterSerialNumber = 513,
     !.SideFiles = SideFiles,
     !.UnallocatedSpace = UnallocatedSpace,
     !.UnallocatedSpaceOffset = UnallocatedSpaceOffset]

\* the unallocated space of a side: the space from the end of the blocks to
\* the end of an FDS side (exact), or a space of any offset and length
SideTails ==
  [exact : {TRUE}, offset : {0}, length : {0}, fill : {0, 5}]
    \cup [exact : {FALSE}, offset : {0, 70, BlockQdSideSize + 5},
          length : {0, 3, BlockSideSize}, fill : {5}]

\* the length of the blocks of a side with the given files
BlocksLength(SideFiles, writeChecksums) ==
  Len(EncodeFDSBlocks(SideWith(SideFiles, <<>>, 0), writeChecksums, FALSE))

\* the side of the given files and unallocated space
SideOfTail(SideFiles, tail, writeChecksums) ==
  IF tail.exact
  THEN SideWith(SideFiles,
                [i \in 1..(BlockSideSize - BlocksLength(SideFiles, writeChecksums)) |->
                   tail.fill],
                BlocksLength(SideFiles, writeChecksums))
  ELSE SideWith(SideFiles, [i \in 1..tail.length |-> tail.fill], tail.offset)

InitSide ==
  /\ IdleNES
  /\ IdleMatch
  /\ callPc = "EncodeFDSSide"
  /\ callArgs \in [SideFiles : SideFileLists, tail : SideTails,
                    writeChecksums : BOOLEAN, generateChecksums : BOOLEAN,
                    writeQd : BOOLEAN, decodeGenerateChecksums : BOOLEAN]
  /\ callResult = <<>>

\* EncodeFDSSide writes the side
EncodeSide ==
  /\ callPc = "EncodeFDSSide"
  /\ callResult' =
       [inputSide |-> SideOfTail(callArgs.SideFiles, callArgs.tail, callArgs.writeChecksums),
        unpadded |->
          UnpaddedSide(SideOfTail(callArgs.SideFiles, callArgs.tail, callArgs.writeChecksums),
                       callArgs.writeChecksums, callArgs.generateChecksums),
        bytes |->
          EncodeSideBlocks(
            SideOfTail(callArgs.SideFiles, callArgs.tail, callArgs.writeChecksums),
            callArgs.writeChecksums, callArgs.generateChecksums, callArgs.writeQd)]
  /\ callPc' = "DecodeFDSSide"
  /\ UNCHANGED <<callArgs, exceptCall>>

\* DecodeFDSSide reads the bytes written
DecodeSide ==
  /\ callPc = "DecodeFDSSide"
  /\ callResult' =
       [inputSide |-> callResult.inputSide, unpadded |-> callResult.unpadded,
        bytes |-> callResult.bytes,
        decoded |-> DecodeSideBlocks(callResult.bytes, callArgs.decodeGenerateChecksums)]
  /\ callPc' = "decoded"
  /\ UNCHANGED <<callArgs, exceptCall>>

\* EncodeFDSSide writes the side that was read, without checksums
EncodeSideAgain ==
  /\ callPc = "decoded"
  /\ callResult.decoded.err = ""
  /\ callResult' =
       [inputSide |-> callResult.inputSide, unpadded |-> callResult.unpadded,
        bytes |-> callResult.bytes, decoded |-> callResult.decoded,
        again |-> EncodeSideBlocks(callResult.decoded.side, FALSE, FALSE, callArgs.writeQd)]
  /\ callPc' = "returned"
  /\ UNCHANGED <<callArgs, exceptCall>>

NextSide == EncodeSide \/ DecodeSide \/ EncodeSideAgain

SpecSide == InitSide /\ [][NextSide]_vars

\* the side has been written and its bytes are in callResult
SideWritten == callPc \in {"DecodeFDSSide", "decoded", "returned"}

\* the side has been read back
SideRead == callPc \in {"decoded", "returned"}

\* the side was a well-formed side: its unallocated space begins where its
\* blocks end, it ends where an FDS side ends, and the CRCs written are those
\* of the blocks
WellFormedSide == callArgs.tail.exact /\ (callArgs.writeChecksums => callArgs.generateChecksums)

\* the same disk info fields, file list and file data
SameContent(side, inputSide) ==
  /\ side.Fields = inputSide.Fields
  /\ side.DiskNumber = inputSide.DiskNumber
  /\ side.DiskWriterSerialNumber = inputSide.DiskWriterSerialNumber
  /\ Len(side.SideFiles) = Len(inputSide.SideFiles)
  /\ \A index \in DOMAIN side.SideFiles :
       /\ side.SideFiles[index].FileNumber = inputSide.SideFiles[index].FileNumber
       /\ side.SideFiles[index].FileIdentificationCode
            = inputSide.SideFiles[index].FileIdentificationCode
       /\ side.SideFiles[index].FileName = inputSide.SideFiles[index].FileName
       /\ side.SideFiles[index].FileAddress = inputSide.SideFiles[index].FileAddress
       /\ side.SideFiles[index].FileSize = inputSide.SideFiles[index].FileSize
       /\ side.SideFiles[index].FileType = inputSide.SideFiles[index].FileType
       /\ side.SideFiles[index].FileData.FileData
            = inputSide.SideFiles[index].FileData.FileData

\* C6: DecodeFDSSide decodes a well-formed side in both layouts, without CRCs
\* (file layout block at 0x38) and with CRCs (CRC at 0x38, file layout block
\* at 0x3a, a CRC behind every later block), and returns the same disk info
\* fields, file list and file data for the same content in both.
C6_BothLayoutsDecoded ==
  (SideRead /\ WellFormedSide)
  => /\ callResult.decoded.err = ""
     /\ SameContent(callResult.decoded.side, callResult.inputSide)

\* the layout without CRCs is decoded
C6_StrippedLayoutDecoded ==
  (SideRead /\ WellFormedSide /\ ~callArgs.writeChecksums)
  => /\ callResult.decoded.err = ""
     /\ SameContent(callResult.decoded.side, callResult.inputSide)

\* the layout with CRCs is not: the side is taken as one without CRCs, and the
\* first byte of the CRC at 0x38 is not the block code of a file layout block
C6_ChecksumLayoutRefused ==
  (SideRead /\ WellFormedSide /\ callArgs.writeChecksums)
  => callResult.decoded.err = "Unable to determine number of files on FDS side."

\* a well-formed side without CRCs is written again as it was, its
\* unallocated space at the same offset
C7_SideWrittenAgain ==
  (callPc = "returned" /\ WellFormedSide /\ ~callArgs.writeChecksums)
  => callResult.again = callResult.bytes

\* C8: for every FDSSide value and every combination of the CRC flags
\* EncodeFDSSide returns exactly the bytes of an FDS side when QD is off and
\* of a QD side when QD is on: a shorter side is filled up with zeros and a
\* longer one is cut.
C8_ExactSideSize ==
  SideWritten
  => /\ Len(callResult.bytes)
          = (IF callArgs.writeQd THEN BlockQdSideSize ELSE BlockSideSize)
     /\ \A i \in DOMAIN callResult.bytes :
          callResult.bytes[i]
            = (IF i <= Len(callResult.unpadded) THEN callResult.unpadded[i] ELSE 0)

\* a side longer than the side size has been cut
C8_LongerSideCut ==
  /\ SideWritten
  /\ Len(callResult.unpadded) > Len(callResult.bytes)
  /\ callArgs.writeChecksums
  /\ callArgs.generateChecksums

-----------------------------------------------------------------------------
(* An image is read by DecodeFDSArchive and written by EncodeFDSArchive    *)

InitArchive ==
  /\ IdleNES
  /\ IdleMatch
  /\ callPc = "DecodeFDSArchive"
  /\ callArgs \in [image : FDSImages, writeHeader : BOOLEAN]
  /\ callResult = <<>>

\* DecodeFDSArchive reads the file of the image
DecodeArchive ==
  /\ callPc = "DecodeFDSArchive"
  /\ callResult' =
       [fdsFile |-> FDSFileOf(callArgs.image, callArgs.writeHeader),
        decoded |-> DecodeFDSArchive(FDSFileOf(callArgs.image, callArgs.writeHeader), "")]
  /\ callPc' = "EncodeFDSArchive"
  /\ UNCHANGED <<callArgs, exceptCall>>

\* EncodeFDSArchive writes the archive that was read, with the file header
\* when the file had one
EncodeArchive ==
  /\ callPc = "EncodeFDSArchive"
  /\ callResult.decoded.err = ""
  /\ callResult' =
       [fdsFile |-> callResult.fdsFile, decoded |-> callResult.decoded,
        encoded |-> EncodeFDSArchive(callResult.decoded.archive, callArgs.writeHeader)]
  /\ callPc' = "returned"
  /\ UNCHANGED <<callArgs, exceptCall>>

NextArchive == DecodeArchive \/ EncodeArchive

SpecArchive == InitArchive /\ [][NextArchive]_vars

\* the disk numbers of the sides of the image, in the order of the file
DiskNumbersOf(image) ==
  [index \in 1..(Len(image) \div (IF Len(image) % ModelSideSize = 0 THEN ModelSideSize
                                  ELSE ModelQdSideSize)) |->
     image[(index - 1) * (IF Len(image) % ModelSideSize = 0 THEN ModelSideSize
                          ELSE ModelQdSideSize) + 23]]

\* C7: for every well-formed image F with sides without CRCs (sides of an FDS
\* image, or of a QD image), EncodeFDSArchive(DecodeFDSArchive(F)) with CRC
\* writing off returns exactly the bytes of F.
C7_RoundTrip ==
  callPc = "returned"
  => /\ callResult.encoded.err = ""
     /\ callResult.encoded.bytes = callResult.fdsFile

\* the bytes of F are returned when no side of F has a smaller disk number
\* than a side before it
C7_RoundTripInDiskOrder ==
  (/\ callPc = "returned"
   /\ \A i, j \in DOMAIN DiskNumbersOf(callArgs.image) :
        i < j => DiskNumbersOf(callArgs.image)[i] <= DiskNumbersOf(callArgs.image)[j])
  => /\ callResult.encoded.err = ""
     /\ callResult.encoded.bytes = callResult.fdsFile

\* the sides of F are returned in the order of their disk numbers otherwise
C7_SidesReordered ==
  (/\ callPc = "returned"
   /\ \E i, j \in DOMAIN DiskNumbersOf(callArgs.image) :
        i < j /\ DiskNumbersOf(callArgs.image)[i] > DiskNumbersOf(callArgs.image)[j])
  => /\ callResult.encoded.bytes # callResult.fdsFile
     /\ Len(callResult.encoded.bytes) = Len(callResult.fdsFile)

-----------------------------------------------------------------------------
(* The order of the template map and the loop over the templates           *)

\* the results MatchNESROM can return for the observed record, one for every
\* order in which the template map can be ranged over
MatchResults ==
  MatchNESROM(testRom, TemplatesOf(TemplateHeap, templateRomMap),
              matchOpts.hashTypeTests, matchOpts.enableInes)

\* the algorithm that answers: the first of the cascade that hits
AnsweringAlgorithms ==
  { Cascade[i] : i \in { k \in 1..Len(Cascade) :
                           /\ HitsOf(Cascade[k]) # {}
                           /\ \A j \in 1..(k - 1) : HitsOf(Cascade[j]) = {} } }

\* the algorithm finds the whole-image hash of the observed record among the
\* keys of the map
KeyHit(alg) ==
  /\ alg # "SUM16"
  /\ TemplateKey(alg, WholeHash(testRom, alg)) \in DOMAIN templateRomMap

\* C21: the result of MatchNESROM is a function of the observed record, the
\* library contents and the enabled algorithms only: whatever the order in
\* which the library is iterated, MatchNESROM returns the same template, or
\* NoMatch in every order.
C21_OrderIndependent ==
  matchPc = "nes matched"
  => \A r \in MatchResults : r.rom = tempRom /\ r.err = matchErr

\* the lookup by key does not depend on the order, and neither does NoMatch
C21_KeyLookupDeterministic ==
  (/\ matchPc = "nes matched"
   /\ \A alg \in AnsweringAlgorithms : KeyHit(alg))
  => \A r \in MatchResults : r.rom = tempRom /\ r.err = matchErr

\* the loop over the map returns the template it meets first: with several
\* templates of the same segment hashes every one of them can be returned
C21_LoopReturnsAnyAccepted ==
  (/\ matchPc = "nes matched"
   /\ \E alg \in AnsweringAlgorithms : ~KeyHit(alg))
  => \E alg \in AnsweringAlgorithms :
       /\ tempRom \in HitsOf(alg)
       /\ {r.rom : r \in MatchResults} = HitsOf(alg)

\* a record has no CHR data
HasNoCHR(rom) == HeaderOf(rom).CHRROMCalculatedSize = 0

\* the loop over the map has answered
FallbackAnswered ==
  /\ matchPc = "nes matched"
  /\ matchErr = ""
  /\ \E alg \in AnsweringAlgorithms : ~KeyHit(alg)

\* C22: a template returned by the loop over the library (no key hit for that
\* algorithm) has the PRG hash of the observed record under that algorithm
\* and, unless both records have no CHR data, its CHR hash, for linear and
\* exponent CHR sizes and for pairs of the same and of different variants.
C22_FallbackSegmentsEqual ==
  FallbackAnswered
  => \A alg \in AnsweringAlgorithms :
       /\ PRGHash(HeaderOf(tempRom), alg) = PRGHash(HeaderOf(testRom), alg)
       /\ \/ HasNoCHR(tempRom) /\ HasNoCHR(testRom)
          \/ CHRHash(HeaderOf(tempRom), alg) = CHRHash(HeaderOf(testRom), alg)

\* the loop takes a CHR size in exponent form, whose linear count is zero,
\* for no CHR data
C22_FallbackLinearCount ==
  FallbackAnswered
  => \A alg \in AnsweringAlgorithms :
       /\ PRGHash(HeaderOf(tempRom), alg) = PRGHash(HeaderOf(testRom), alg)
       /\ \/ HeaderOf(tempRom).CHRROMSize = 0 /\ HeaderOf(testRom).CHRROMSize = 0
          \/ CHRHash(HeaderOf(tempRom), alg) = CHRHash(HeaderOf(testRom), alg)

\* with CHR sizes in linear form the statement of C22 holds
C22_FallbackLinearForm ==
  (/\ FallbackAnswered
   /\ HeaderOf(tempRom).CHRROMSize # 0 \/ HasNoCHR(tempRom)
   /\ HeaderOf(testRom).CHRROMSize # 0 \/ HasNoCHR(testRom))
  => \A alg \in AnsweringAlgorithms :
       /\ PRGHash(HeaderOf(tempRom), alg) = PRGHash(HeaderOf(testRom), alg)
       /\ \/ HasNoCHR(tempRom) /\ HasNoCHR(testRom)
          \/ CHRHash(HeaderOf(tempRom), alg) = CHRHash(HeaderOf(testRom), alg)

-----------------------------------------------------------------------------
(* The life of a record: a file is decoded, the record is processed        *)
(* against a library, once or more, and encoded                            *)

\* how often a record is processed
MaxTransplants == 2

\* the files of the observed records: NES 2.0 files with a trailing byte, with
\* CHR data, with a trainer, with the trainer flag and no room for a trainer,
\* without PRG data, and an iNES 1.0 file
RecordFiles ==
  { NESFileOf(SmallPRG, NoCHR, PlainProfile, PayloadA),
    NESFileOf(SmallPRG, [lin |-> FALSE, n |-> 0, e |-> 1, m |-> 0], PlainProfile, PayloadC),
    MkNESFile(SmallPRG, NoCHR, TRUE, 1, PlainProfile),
    SubSeq(MkNESFile(SmallPRG, NoCHR, TRUE, 0, PlainProfile), 1, 22),
    NESFileOf(Linear(0), NoCHR, PlainProfile, <<7>>),
    INESFileOf(0, 0, <<7, 8>>) }

\* the template records of the libraries the record is processed against:
\* the dump of PayloadA with another header, a dump with another trailing
\* byte, one with other CHR data, an iNES 1.0 template, and a dump with a
\* trainer that was loaded with its trainer
RecordTemplateHeap ==
  << TemplateHeap[1], TemplateHeap[4], TemplateHeap[6],
     AsTemplate(Loaded(INESFileOf(0, 0, <<7>>), TRUE, "E", "e/")),
     AsTemplate([DecodeNESROM(MkNESFile(SmallPRG, NoCHR, TRUE, 1, PlainProfile),
                              FALSE, TRUE, "t/").rom EXCEPT !.Name = "T"]) >>

RecordLibraries ==
  { LibraryOf(RecordTemplateHeap, order, indexed) :
      order \in {q \in LoadOrders(DOMAIN RecordTemplateHeap, MaxTemplates) : Distinct(q)},
      indexed \in {{"SHA256"}, WholeAlgorithms} }

\* the hash switches of a run
RecordHashTypes == {HASH_TYPE_SHA256, HASH_TYPE_SUM16, 31}

InitRecord ==
  /\ IdleCall
  /\ nesPc = "start"
  /\ inputFile \in RecordFiles
  /\ nesFlags \in NESFlags
  /\ romData = NilROM
  /\ decodeErr = ""
  /\ romBytes = NilBytes
  /\ encodeErr = ""
  /\ matchPc = "idle"
  /\ testRom = NilROM
  /\ templateRomMap \in RecordLibraries
  /\ matchOpts \in [hashTypeTests : RecordHashTypes, enableInes : {nesFlags.enableInes},
                    truncateRoms : {FALSE}, organizeRoms : {FALSE}]
  /\ tempRom = NilROM
  /\ matchErr = ""
  /\ updateErr = ""

\* LoadROM: the file is decoded; a record that was decoded joins the list of
\* observed records
DecodeRecord ==
  /\ nesPc = "start"
  /\ LET r == DecodeNESROM(inputFile, nesFlags.enableInes, nesFlags.preserveTrainer, "")
     IN /\ romData' = r.rom
        /\ decodeErr' = r.err
        /\ testRom' = IF r.err = "" THEN r.rom ELSE NilROM
        /\ matchPc' = IF r.err = "" THEN "observed" ELSE "idle"
  /\ nesPc' = "decoded"
  /\ UNCHANGED <<inputFile, nesFlags, romBytes, encodeErr, templateRomMap, matchOpts,
                 tempRom, matchErr, updateErr, callVars>>

\* ProcessNESROMs on the record: MatchNESROM and, when it found a template,
\* UpdateNESROM
ProcessRecord ==
  /\ nesPc = "decoded"
  /\ matchPc \in {"observed", "processed"}
  /\ Len(callArgs) < MaxTransplants
  /\ \E truncateRoms \in BOOLEAN :
       \E r \in MatchNESROM(testRom, TemplatesOf(RecordTemplateHeap, templateRomMap),
                            matchOpts.hashTypeTests, matchOpts.enableInes) :
         /\ tempRom' = r.rom
         /\ matchErr' = r.err
         /\ matchOpts' = [matchOpts EXCEPT !.truncateRoms = truncateRoms]
         /\ IF r.err = ""
            THEN /\ testRom' = UpdateNESROM(testRom, r.rom, truncateRoms,
                                            matchOpts.organizeRoms,
                                            matchOpts.enableInes).rom
                 /\ updateErr' = UpdateNESROM(testRom, r.rom, truncateRoms,
                                              matchOpts.organizeRoms,
                                              matchOpts.enableInes).err
            ELSE UNCHANGED <<testRom, updateErr>>
         /\ callArgs' = Append(callArgs, r.err = "" /\ truncateRoms)
  /\ matchPc' = "processed"
  /\ UNCHANGED <<nesVars, templateRomMap, callPc, callResult>>

\* WriteROM: the record is encoded
EncodeRecord ==
  /\ nesPc = "decoded"
  /\ matchPc \in {"observed", "processed"}
  /\ LET r == EncodeNESROM(testRom, nesFlags.enableInes, nesFlags.truncateRom,
                           nesFlags.preserveTrainer)
     IN /\ romBytes' = r.bytes
        /\ encodeErr' = r.err
  /\ nesPc' = "encoded"
  /\ UNCHANGED <<inputFile, nesFlags, romData, decodeErr, exceptNES>>

NextRecord == DecodeRecord \/ ProcessRecord \/ EncodeRecord

SpecRecord == InitRecord /\ [][NextRecord]_vars

-----------------------------------------------------------------------------
(* EncodeNESROM with truncation                                            *)

\* descriptor, the preserved trainer if any, PRG and CHR
TruncatedFile ==
  EncodeNESROMHeader(testRom, nesFlags.enableInes, nesFlags.preserveTrainer).bytes
    \o (IF WritesTrainer(testRom, nesFlags.preserveTrainer)
        THEN Elems(testRom.TrainerData) ELSE <<>>)
    \o Elems(testRom.PRGROMData) \o Elems(testRom.CHRROMData)

\* the record has been encoded with truncation
EncodedTruncated == nesPc = "encoded" /\ nesFlags.truncateRom

\* C23: with truncation requested, EncodeNESROM of a record of either variant
\* (NES 2.0, or iNES 1.0 with iNES enabled) returns the descriptor, the
\* preserved trainer if any, and then exactly PRG and CHR, every residual
\* misc byte discarded, and does not fail, for every record produced by
\* decode or by transplant.
C23_TruncatedEncode ==
  EncodedTruncated
  => /\ encodeErr = ""
     /\ romBytes = TruncatedFile

\* the sizes of the header are the lengths of the PRG and CHR data of the record
SizesAsData(rom) ==
  /\ HeaderOf(rom).PRGROMCalculatedSize = LenB(rom.PRGROMData)
  /\ HeaderOf(rom).CHRROMCalculatedSize = LenB(rom.CHRROMData)

\* for a record with an NES 2.0 header whose sizes are those of its data the
\* statement of C23 holds
C23_TruncatedEncode20 ==
  (EncodedTruncated /\ testRom.Header20 # NilHeader /\ SizesAsData(testRom))
  => /\ encodeErr = ""
     /\ romBytes = TruncatedFile

\* for a record with an iNES 1.0 header EncodeNESROM reads the misc ROM count
\* of the NES 2.0 header, which the record does not have
C23_TruncatedEncode10Panics ==
  (EncodedTruncated /\ testRom.Header20 = NilHeader)
  => /\ encodeErr = "panic: nil pointer dereference"
     /\ testRom.Header10 # NilHeader
     /\ nesFlags.enableInes

-----------------------------------------------------------------------------
(* The record between decode, transplant and encode                        *)

\* the record is in the list of observed records
Observed == matchPc \in {"observed", "processed"}

\* the last run of ProcessNESROMs has updated the record
Transplanted == matchPc = "processed" /\ matchErr = "" /\ updateErr = ""

\* the stored whole-image hashes of a record
WholeHashes(rom) == <<rom.CRC32, rom.MD5, rom.SHA1, rom.SHA256>>

\* the whole-image hashes of a payload
HashesOf(data) ==
  <<Digest("CRC32", data), Digest("MD5", data), Digest("SHA1", data), Digest("SHA256", data)>>

\* C25: after DecodeNESROM and after any sequence of UpdateNESROM transplants
\* with or without truncation the stored whole-image CRC-32, MD5, SHA-1 and
\* SHA-256 of the record are the hashes of its current payload.
C25_HashesOfPayload ==
  Observed => WholeHashes(testRom) = HashesOf(Elems(testRom.ROMData))

\* after DecodeNESROM they are
C25_HashesAfterDecode ==
  matchPc = "observed" => WholeHashes(testRom) = HashesOf(Elems(testRom.ROMData))

\* after a transplant they are the hashes of the template, whatever the
\* payload of the record is
C25_HashesOfTemplate ==
  Transplanted => WholeHashes(testRom) = WholeHashes(tempRom)

\* the lengths of the segments of a record
SegmentLengths(rom) ==
  LenB(rom.PRGROMData) + LenB(rom.CHRROMData) + LenB(rom.MiscROMData)

\* C26: after a successful DecodeNESROM and after any sequence of UpdateNESROM
\* transplants with or without truncation, for either header variant,
\* len(PRG) + len(CHR) + len(misc) is len(payload), and a record whose header
\* has the trainer flag set holds a trainer of exactly 512 bytes.
C26_SegmentLengths ==
  Observed
  => /\ SegmentLengths(testRom) = LenB(testRom.ROMData)
     /\ (HeaderOf(testRom).Trainer => LenB(testRom.TrainerData) = TrainerSize)

\* after DecodeNESROM of an NES 2.0 file that holds the trainer it announces
\* the statement of C26 holds
C26_SegmentLengthsDecoded20 ==
  (/\ matchPc = "observed"
   /\ testRom.Header20 # NilHeader
   /\ (HasTrainerFlag(inputFile) => Len(inputFile) >= 16 + TrainerSize))
  => /\ SegmentLengths(testRom) = LenB(testRom.ROMData)
     /\ (HeaderOf(testRom).Trainer => LenB(testRom.TrainerData) = TrainerSize)

\* a transplant without truncation leaves the segments and the payload as
\* they were; one with truncation leaves PRG and CHR as the payload
C26_LengthsAfterTruncation ==
  (Transplanted /\ matchOpts.truncateRoms)
  => LenB(testRom.PRGROMData) + LenB(testRom.CHRROMData) = LenB(testRom.ROMData)

\* a run of ProcessNESROMs on the record
ProcessStep == matchPc \in {"observed", "processed"} /\ matchPc' = "processed"

\* the record holds exactly one of the two headers
OneHeader(rom) == (rom.Header20 # NilHeader) # (rom.Header10 # NilHeader)

\* C30: a record never holds both header variants: after every successful
\* DecodeNESROM and after every successful UpdateNESROM exactly one of the NES
\* 2.0 and iNES 1.0 headers is present, and a failed UpdateNESROM leaves the
\* headers, name, path and hashes of the observed record unchanged.
C30_ExactlyOneHeader ==
  /\ [](Observed => OneHeader(testRom))
  /\ [][(ProcessStep /\ matchErr' = "" /\ updateErr' # "") => testRom' = testRom]_vars

\* an update has failed for a template without a usable header, and the
\* record holds the one header it had
C30_FailedUpdate ==
  /\ matchPc = "processed"
  /\ matchErr = ""
  /\ updateErr = "Unable to update ROM."
  /\ tempRom.Header10 # NilHeader
  /\ testRom.Header20 # NilHeader
  /\ testRom.Header10 = NilHeader

-----------------------------------------------------------------------------
(* UNIFTool/UNIFTool.go: the chunks of a UNIF file                         *)
(* A chunk id is the sequence of its four bytes, and the chunk map is a    *)
(* function from chunk ids to chunk data.                                  *)

\* "UNIF"
UNIF_MAGIC == <<85, 78, 73, 70>>

\* where the chunks begin: behind the magic, the version and the reserved bytes
UNIF_HEADER_SIZE == 32

\* binary.LittleEndian.Uint32: a 32-bit value as its high and low 16 bits
LittleEndianUint32(b) == <<b[3] + 256 * b[4], b[1] + 256 * b[2]>>

\* the four bytes of a 32-bit value, least significant first
PutUint32(v) == <<v[2] % 256, v[2] \div 256, v[1] % 256, v[1] \div 256>>

\* a number of less than 2^16 as a 32-bit value
Uint32Of(n) == <<0, n>>

\* crc32.ChecksumIEEE: the 32-bit value of the CRC-32 digest
ChecksumIEEE(data) == <<Digest("CRC32", data)[2], Digest("CRC32", data)[3]>>

\* tempPosition + 8 + chunkLength > len(inputData), for data of less than
\* 2^16 bytes: a length of 2^16 or more is behind the end
BehindEnd(inputData, tempPosition, chunkLength) ==
  chunkLength[1] > 0 \/ tempPosition + 8 + chunkLength[2] > Len(inputData)

\* getNextUNIFChunk: chunk id, chunk data and the offset of the next chunk, or
\* an error; reading the chunk length behind the end of the data panics
readChunkAt(inputData, tempPosition) ==
  IF tempPosition + 8 > Len(inputData)
  THEN [chunkId |-> <<>>, chunkData |-> <<>>, position |-> 0,
        err |-> "panic: slice bounds out of range"]
  ELSE IF BehindEnd(inputData, tempPosition,
                    LittleEndianUint32(Slice(inputData, tempPosition + 4, tempPosition + 8)))
  THEN [chunkId |-> <<>>, chunkData |-> <<>>, position |-> 0,
        err |-> "Invalid UNIF chunk length."]
  ELSE [chunkId |-> Slice(inputData, tempPosition, tempPosition + 4),
        chunkData |->
          Slice(inputData, tempPosition + 8,
                tempPosition + 8
                  + LittleEndianUint32(Slice(inputData, tempPosition + 4, tempPosition + 8))[2]),
        position |->
          tempPosition + 8
            + LittleEndianUint32(Slice(inputData, tempPosition + 4, tempPosition + 8))[2],
        err |-> ""]

getNextUNIFChunk(inputData, position) ==
  IF position + 7 > Len(inputData)
  THEN [chunkId |-> <<>>, chunkData |-> <<>>, position |-> 0,
        err |-> "Not enough data to decode UNIF chunk."]
  ELSE readChunkAt(inputData,
                   IF Slice(inputData, position, position + 4) = UNIF_MAGIC
                   THEN UNIF_HEADER_SIZE ELSE position)

\* unifChunks[chunkId] = chunkData
WithChunk(unifChunks, chunkId, chunkData) ==
  [id \in DOMAIN unifChunks \cup {chunkId} |->
     IF id = chunkId THEN chunkData ELSE unifChunks[id]]

\* "0" .. "9", "A" .. "F"
ChunkDigits == <<48, 49, 50, 51, 52, 53, 54, 55, 56, 57, 65, 66, 67, 68, 69, 70>>

\* getRomData from the chunk of the given digit on: the data of the chunks
\* that are present, in the order of the digits; a checksum chunk that is
\* present and is not the CRC-32 of its chunk is an error, and reading the
\* 32-bit value of a checksum chunk of less than four bytes panics
RECURSIVE getRomDataFrom(_, _, _, _, _)
getRomDataFrom(unifChunks, romType, checksumType, index, data) ==
  IF index > Len(ChunkDigits) THEN [romData |-> data, err |-> ""]
  ELSE IF Append(romType, ChunkDigits[index]) \notin DOMAIN unifChunks
  THEN getRomDataFrom(unifChunks, romType, checksumType, index + 1, data)
  ELSE IF Append(checksumType, ChunkDigits[index]) \in DOMAIN unifChunks
          /\ Len(unifChunks[Append(checksumType, ChunkDigits[index])]) < 4
  THEN [romData |-> NilBytes, err |-> "panic: index out of range"]
  ELSE IF Append(checksumType, ChunkDigits[index]) \in DOMAIN unifChunks
          /\ ChecksumIEEE(unifChunks[Append(romType, ChunkDigits[index])])
               # LittleEndianUint32(unifChunks[Append(checksumType, ChunkDigits[index])])
  THEN [romData |-> NilBytes,
        err |-> "Checksum mismatch for chunk"]
  ELSE getRomDataFrom(unifChunks, romType, checksumType, index + 1,
                      data \o unifChunks[Append(romType, ChunkDigits[index])])

getRomData(unifChunks, romType, checksumType) ==
  getRomDataFrom(unifChunks, romType, checksumType, 1, <<>>)

\* "PRG", "PCK", "CHR", "CCK"
ChunkPRG == <<80, 82, 71>>

ChunkPCK == <<80, 67, 75>>

ChunkCHR == <<67, 72, 82>>

ChunkCCK == <<67, 67, 75>>

\* the record DecodeUNIFROM builds from the PRG and CHR data
UNIFRecord(prgRomData, chrRomData) ==
  UpdateChecksums(
    UpdateSizes([NewNESROM EXCEPT !.PRGROMData = prgRomData, !.CHRROMData = chrRomData,
                                  !.ROMData = prgRomData \o chrRomData,
                                  !.Header20 = NewNES20Header],
                PRG_CANONICAL_SIZE_ROM, CHR_CANONICAL_SIZE_ROM))

\* DecodeUNIFROM behind GetUNIFChunks: the record, or the error of getRomData
decodeChunks(unifChunks, prg) ==
  IF prg.err # "" THEN [rom |-> NilROM, err |-> prg.err]
  ELSE IF getRomData(unifChunks, ChunkCHR, ChunkCCK).err # ""
  THEN [rom |-> NilROM, err |-> getRomData(unifChunks, ChunkCHR, ChunkCCK).err]
  ELSE [rom |-> UNIFRecord(prg.romData, getRomData(unifChunks, ChunkCHR, ChunkCCK).romData),
        err |-> ""]

DecodeUNIFChunks(unifChunks) ==
  decodeChunks(unifChunks, getRomData(unifChunks, ChunkPRG, ChunkPCK))

-----------------------------------------------------------------------------
(* A UNIF file is decoded                                                  *)

\* largest number of chunks of a generated file
MaxChunks == 3

\* "MAPR"
ChunkMAPR == <<77, 65, 80, 82>>

\* the chunks of the generated files: PRG1, PRG0 and PRGA, CHR0, the checksum
\* of PRG0 and a wrong one, a checksum of two bytes, a chunk that is neither
\* PRG nor CHR, and a chunk whose id is the magic
ChunkPool ==
  { [id |-> Append(ChunkPRG, 49), data |-> <<3>>],
    [id |-> Append(ChunkPRG, 48), data |-> <<1, 2>>],
    [id |-> Append(ChunkPRG, 65), data |-> <<4>>],
    [id |-> Append(ChunkCHR, 48), data |-> <<5, 6>>],
    [id |-> Append(ChunkPCK, 48), data |-> PutUint32(ChecksumIEEE(<<1, 2>>))],
    [id |-> Append(ChunkPCK, 48), data |-> PutUint32(ChecksumIEEE(<<2, 1>>))],
    [id |-> Append(ChunkCCK, 48), data |-> <<0, 0>>],
    [id |-> ChunkMAPR, data |-> <<>>],
    [id |-> UNIF_MAGIC, data |-> <<9>>] }

\* the sequences of chunks of a file
RECURSIVE ChunkLists(_)
ChunkLists(n) ==
  IF n = 0 THEN {<<>>}
  ELSE ChunkLists(n - 1)
         \cup { Append(q, c) : q \in {x \in ChunkLists(n - 1) : Len(x) = n - 1},
                               c \in ChunkPool }

\* the bytes of the chunks
RECURSIVE ChunkBytes(_, _)
ChunkBytes(chunks, index) ==
  IF index > Len(chunks) THEN <<>>
  ELSE chunks[index].id \o PutUint32(Uint32Of(Len(chunks[index].data))) \o chunks[index].data
         \o ChunkBytes(chunks, index + 1)

\* magic, version 7, reserved bytes, the chunks, and what follows them:
\* nothing, a few bytes, or the file cut short by one byte
UNIFFileOf(chunks, tail) ==
  IF tail < 0
  THEN SubSeq(UNIF_MAGIC \o <<7, 0, 0, 0>> \o [i \in 1..24 |-> 0] \o ChunkBytes(chunks, 1),
              1, UNIF_HEADER_SIZE + Len(ChunkBytes(chunks, 1)) + tail)
  ELSE UNIF_MAGIC \o <<7, 0, 0, 0>> \o [i \in 1..24 |-> 0] \o ChunkBytes(chunks, 1)
         \o [i \in 1..tail |-> 0]

UNIFTails == {-1, 0, 5, 7}

InitUNIF ==
  /\ IdleNES
  /\ IdleMatch
  /\ callPc = "DecodeUNIFROM"
  /\ callArgs \in [chunks : ChunkLists(MaxChunks), tail : UNIFTails]
  /\ callResult = <<>>

\* the file handed to DecodeUNIFROM
UNIFFile == UNIFFileOf(callArgs.chunks, callArgs.tail)

\* DecodeUNIFROM and GetUNIFChunks up to the loop over the chunks
StartChunks ==
  /\ callPc = "DecodeUNIFROM"
  /\ callResult' = [romPosition |-> UNIF_HEADER_SIZE, unifChunks |-> <<>>,
                    rom |-> NilROM, err |-> ""]
  /\ callPc' = "GetUNIFChunks"
  /\ UNCHANGED <<callArgs, exceptCall>>

\* one turn of the loop of GetUNIFChunks: the next chunk is read and filed
\* under its id; an error of getNextUNIFChunk is returned by DecodeUNIFROM
ReadChunk ==
  /\ callPc = "GetUNIFChunks"
  /\ callResult.romPosition < Len(UNIFFile)
  /\ IF getNextUNIFChunk(UNIFFile, callResult.romPosition).err = ""
     THEN /\ callResult' =
               [callResult EXCEPT
                  !.romPosition = getNextUNIFChunk(UNIFFile, callResult.romPosition).position,
                  !.unifChunks =
                    WithChunk(callResult.unifChunks,
                              getNextUNIFChunk(UNIFFile, callResult.romPosition).chunkId,
                              getNextUNIFChunk(UNIFFile, callResult.romPosition).chunkData)]
          /\ callPc' = "GetUNIFChunks"
     ELSE /\ callResult' =
               [callResult EXCEPT
                  !.err = getNextUNIFChunk(UNIFFile, callResult.romPosition).err]
          /\ callPc' = IF getNextUNIFChunk(UNIFFile, callResult.romPosition).err
                           = "panic: slice bounds out of range"
                        THEN "panicked" ELSE "returned"
  /\ UNCHANGED <<callArgs, exceptCall>>

\* the loop has come to the end of the data: GetUNIFChunks returns the chunks
EndChunks ==
  /\ callPc = "GetUNIFChunks"
  /\ callResult.romPosition >= Len(UNIFFile)
  /\ callPc' = "getRomData"
  /\ UNCHANGED <<callArgs, callResult, exceptCall>>

\* DecodeUNIFROM builds the record from the chunks
DecodeChunks ==
  /\ callPc = "getRomData"
  /\ callResult' = [callResult EXCEPT
                      !.rom = DecodeUNIFChunks(callResult.unifChunks).rom,
                      !.err = DecodeUNIFChunks(callResult.unifChunks).err]
  /\ callPc' = IF DecodeUNIFChunks(callResult.unifChunks).err = "panic: index out of range"
               THEN "panicked" ELSE "returned"
  /\ UNCHANGED <<callArgs, exceptCall>>

NextUNIF == StartChunks \/ ReadChunk \/ EndChunks \/ DecodeChunks

SpecUNIF == InitUNIF /\ [][NextUNIF]_vars

\* the Go scheduler runs the one goroutine of the program as long as it can
\* take a step; the fairness of the steps of GetUNIFChunks is what its
\* termination needs
SpecUNIFLive ==
  SpecUNIF /\ WF_vars(StartChunks) /\ WF_vars(ReadChunk) /\ WF_vars(EndChunks)

-----------------------------------------------------------------------------
(* The loop over the chunks, and the record built from them                *)

\* DecodeUNIFROM has returned or the program has panicked
UNIFDone == callPc \in {"returned", "panicked"}

\* GetUNIFChunks has returned or the program has panicked in it
ChunksDone == callPc \in {"getRomData", "returned", "panicked"}

\* a chunk behind the first one has the magic as its id
MagicChunkBehindFirst ==
  \E i \in 2..Len(callArgs.chunks) : callArgs.chunks[i].id = UNIF_MAGIC

\* C24: GetUNIFChunks terminates on every input that starts with the magic,
\* whatever the chunk ids and lengths are.
C24_Terminates == <>ChunksDone

\* C24, the cursor: every chunk read moves the cursor forward.
C24_CursorAdvances ==
  [][(callPc = "GetUNIFChunks" /\ callPc' = "GetUNIFChunks")
       => callResult'.romPosition > callResult.romPosition]_vars

\* C24 as the code has it: the loop ends for the files in which no chunk
\* behind the first one has the magic as its id.
C24_TerminatesWithoutMagicChunk == (~MagicChunkBehindFirst) => <>ChunksDone

\* C24 as the code has it: a file with such a chunk is never decoded.
C24_MagicChunkLoops == MagicChunkBehindFirst => ~ChunksDone

\* the data of the chunk of the given id, the last one of the file
ChunkOf(chunks, id) ==
  chunks[CHOOSE i \in DOMAIN chunks :
           chunks[i].id = id /\ \A j \in DOMAIN chunks : j > i => chunks[j].id # id].data

ChunkIds(chunks) == {chunks[i].id : i \in DOMAIN chunks}

\* the chunks of a type that are present, in the order of their digits
RECURSIVE ChunksInOrder(_, _, _)
ChunksInOrder(chunks, romType, index) ==
  IF index > Len(ChunkDigits) THEN <<>>
  ELSE (IF Append(romType, ChunkDigits[index]) \in ChunkIds(chunks)
        THEN ChunkOf(chunks, Append(romType, ChunkDigits[index])) ELSE <<>>)
         \o ChunksInOrder(chunks, romType, index + 1)

\* every checksum chunk that is present with its data chunk holds the CRC-32
\* of the data chunk
ChecksumsAgree(chunks, romType, checksumType) ==
  \A i \in DOMAIN ChunkDigits :
    (Append(romType, ChunkDigits[i]) \in ChunkIds(chunks)
       /\ Append(checksumType, ChunkDigits[i]) \in ChunkIds(chunks))
      => ChunkOf(chunks, Append(checksumType, ChunkDigits[i]))
           = PutUint32(ChecksumIEEE(ChunkOf(chunks, Append(romType, ChunkDigits[i]))))

\* a file of whole chunks that GetUNIFChunks reads to its end
WholeChunks == callArgs.tail = 0 /\ ~MagicChunkBehindFirst

\* every checksum chunk of the file has its four bytes
FourByteChecksums ==
  \A i \in DOMAIN callArgs.chunks :
    SubSeq(callArgs.chunks[i].id, 1, 3) \in {ChunkPCK, ChunkCCK}
      => Len(callArgs.chunks[i].data) >= 4

\* what DecodeUNIFROM owes for a file of whole chunks
ConcatenationOrError ==
  IF ChecksumsAgree(callArgs.chunks, ChunkPRG, ChunkPCK)
       /\ ChecksumsAgree(callArgs.chunks, ChunkCHR, ChunkCCK)
  THEN /\ callPc = "returned"
       /\ callResult.err = ""
       /\ callResult.rom.PRGROMData = ChunksInOrder(callArgs.chunks, ChunkPRG, 1)
       /\ callResult.rom.CHRROMData = ChunksInOrder(callArgs.chunks, ChunkCHR, 1)
  ELSE /\ callPc = "returned"
       /\ callResult.err # ""
       /\ callResult.rom = NilROM

\* C9: PRG and CHR are the chunks that are present in the order of their
\* digits when the checksum chunks agree, and decoding fails with an error
\* and no record when one of them disagrees.
C9_Concatenation == (UNIFDone /\ WholeChunks) => ConcatenationOrError

\* C9 as the code has it: the same for the files whose checksum chunks have
\* four bytes.
C9_ConcatenationFourBytes ==
  (UNIFDone /\ WholeChunks /\ FourByteChecksums) => ConcatenationOrError

\* C9 as the code has it: a checksum chunk of less than four bytes beside its
\* data chunk ends the program.
C9_ShortChecksumPanics ==
  (UNIFDone /\ WholeChunks /\ callPc = "panicked") => ~FourByteChecksums

\* C30, the UNIF decoder: a record of DecodeUNIFROM has the NES 2.0 header
\* and no iNES 1.0 header.
UNIFOneHeader ==
  (callPc = "returned" /\ callResult.err = "")
    => (callResult.rom.Header20 # NilHeader /\ callResult.rom.Header10 = NilHeader)

-----------------------------------------------------------------------------
(* The sizes and the console fields of an edited record                    *)

\* the edit of a byte size has been written: the field, and the number given
ByteSizeWritten(romFieldName) ==
  /\ callPc = "returned"
  /\ callArgs.romFieldName = romFieldName
  /\ ~ParseUint(callArgs.romFieldValue).strConvErr
  /\ HasNES20Signature(callArgs.inputRom)

\* C27: editing prg-rom-byte-size (chr-rom-byte-size) with the number N sets
\* the PRG (CHR) size to N: the header of the output file encodes N bytes,
\* and the other size is the one of the input file.
C27_ByteSizeSet ==
  \A p \in DOMAIN callResult.fs.files :
    /\ ByteSizeWritten("prg-rom-byte-size")
         => /\ PRGSize20(callResult.fs.files[p])
                 = U64(ParseUint(callArgs.romFieldValue).paramInt)
            /\ CHRSize20(callResult.fs.files[p]) = CHRSize20(callArgs.inputRom)
    /\ ByteSizeWritten("chr-rom-byte-size")
         => /\ CHRSize20(callResult.fs.files[p])
                 = U64(ParseUint(callArgs.romFieldValue).paramInt)
            /\ PRGSize20(callResult.fs.files[p]) = PRGSize20(callArgs.inputRom)

\* C27 as the code has it: the number is handed to UpdateSizes as the
\* canonical size, and the sizes of the output file are those of the input
\* file whatever the number is.
C27_ByteSizeKept ==
  \A p \in DOMAIN callResult.fs.files :
    (ByteSizeWritten("prg-rom-byte-size") \/ ByteSizeWritten("chr-rom-byte-size"))
      => /\ PRGSize20(callResult.fs.files[p]) = PRGSize20(callArgs.inputRom)
         /\ CHRSize20(callResult.fs.files[p]) = CHRSize20(callArgs.inputRom)

\* the record of the command has an NES 2.0 header
Edits20 == callResult.nesRom # NilROM /\ callResult.nesRom.Header20 # NilHeader

\* C29: in an NES 2.0 record that was decoded and then changed by an accepted
\* edit, the Vs. hardware type and the Vs. PPU type are zero unless the
\* console type is 1, and the extended console type is zero unless the
\* console type is 3.
C29_ConsoleFields ==
  (callPc \in {"switch", "WriteROM", "returned"} /\ Edits20)
    => /\ callResult.nesRom.Header20.ConsoleType # 1
            => /\ callResult.nesRom.Header20.VsHardwareType = 0
               /\ callResult.nesRom.Header20.VsPPUType = 0
       /\ callResult.nesRom.Header20.ConsoleType # 3
            => callResult.nesRom.Header20.ExtendedConsoleType = 0

\* the console type of a Vs. System file with a Vs. PPU type was set to
\* another type, and the edit was accepted
C29_VsFileRetyped ==
  /\ callPc = "WriteROM"
  /\ callArgs.romFieldName = "console-type"
  /\ DecodeNESROM(callArgs.inputRom, TRUE, TRUE, <<>>).rom.Header20.VsPPUType # 0
  /\ callResult.nesRom.Header20.ConsoleType # 1
  /\ callResult.nesRom.Header20.VsPPUType = 0

-----------------------------------------------------------------------------
(* ProcessNESROMs: a list of observed records is processed against a       *)
(* library. The library map and the list hold pointers: the positions of   *)
(* the templates in the heap of the library, and the positions of the      *)
(* observed records in the list.                                           *)

\* largest number of observed records of a list
MaxObserved == 2

\* the observed records: the files of the records, loaded with their trainer
ObservedRecords(enableInes) ==
  { DecodeNESROM(f, enableInes, TRUE, "").rom :
      f \in {g \in RecordFiles : DecodeNESROM(g, enableInes, TRUE, "").err = ""} }

\* the lists of observed records
RECURSIVE ObservedLists(_, _)
ObservedLists(pool, n) ==
  IF n = 0 THEN {<<>>}
  ELSE ObservedLists(pool, n - 1)
         \cup { Append(q, t) : q \in {x \in ObservedLists(pool, n - 1) : Len(x) = n - 1},
                               t \in pool }

\* the template whose header an update has stored in the observed record:
\* UpdateNESROM copies the pointer to the header, so that what the call leaves
\* in the header of the observed record is what the header of the template
\* holds
SharingHeader(templateRom, targetRom, enableInes) ==
  IF templateRom.Header20 # NilHeader
  THEN [templateRom EXCEPT !.Header20 = targetRom.Header20]
  ELSE IF enableInes /\ templateRom.Header10 # NilHeader
  THEN [templateRom EXCEPT !.Header10 = targetRom.Header10]
  ELSE templateRom

\* the heap of the library after an update with one of its templates
HeapAfterUpdate(heap, templateRom, targetRom, enableInes) ==
  [p \in DOMAIN heap |->
     IF heap[p] = templateRom THEN SharingHeader(heap[p], targetRom, enableInes)
     ELSE heap[p]]

\* every observed record is appended, matched or not
AppendAlways(returnRomList, index, matched, updated) == Append(returnRomList, index)

\* returnRomList = append(returnRomList, testRomList[index]) when matchErr and
\* updateErr are nil
AppendProcessed(returnRomList, index, matched, updated) ==
  IF matched /\ updated THEN Append(returnRomList, index) ELSE returnRomList

InitProcess ==
  /\ IdleNES
  /\ matchPc = "ProcessNESROMs"
  /\ testRom = NilROM
  /\ tempRom = NilROM
  /\ matchErr = ""
  /\ updateErr = ""
  /\ templateRomMap \in RecordLibraries
  /\ matchOpts \in [hashTypeTests : {31}, enableInes : BOOLEAN,
                    truncateRoms : BOOLEAN, organizeRoms : BOOLEAN]
  /\ callPc = "ProcessNESROMs"
  /\ callArgs \in ObservedLists(ObservedRecords(matchOpts.enableInes), MaxObserved)
  /\ callResult = [testRomList |-> callArgs, heap |-> RecordTemplateHeap, index |-> 0,
                   returnRomList |-> <<>>, outcomes |-> <<>>]

\* one turn of the loop of ProcessNESROMs whose match returned the result r
ProcessTurn(r, updated) ==
  /\ tempRom' = r.rom
  /\ matchErr' = r.err
  /\ updateErr' = IF r.err = "" THEN updated.err ELSE ""
  /\ testRom' = IF r.err = "" THEN updated.rom ELSE testRom
  /\ callResult' =
       [callResult EXCEPT
          !.testRomList[callResult.index + 1] = IF r.err = "" THEN updated.rom ELSE @,
          !.heap = IF r.err = "" /\ updated.err = ""
                   THEN HeapAfterUpdate(@, r.rom, updated.rom, matchOpts.enableInes)
                   ELSE @,
          !.index = @ + 1,
          !.returnRomList = AppendProcessed(@, callResult.index + 1, r.err = "",
                                            r.err = "" /\ updated.err = ""),
          !.outcomes = Append(@, [matchErr |-> r.err,
                                  updateErr |-> IF r.err = "" THEN updated.err ELSE ""])]

\* the loop of ProcessNESROMs: MatchNESROM on the next observed record and,
\* when it found a template, UpdateNESROM
ProcessNext ==
  /\ callPc = "ProcessNESROMs"
  /\ callResult.index < Len(callResult.testRomList)
  /\ \E r \in MatchNESROM(callResult.testRomList[callResult.index + 1],
                          TemplatesOf(callResult.heap, templateRomMap),
                          matchOpts.hashTypeTests, matchOpts.enableInes) :
       ProcessTurn(r, UpdateNESROM(callResult.testRomList[callResult.index + 1], r.rom,
                                   matchOpts.truncateRoms, matchOpts.organizeRoms,
                                   matchOpts.enableInes))
  /\ UNCHANGED <<nesVars, matchPc, templateRomMap, matchOpts, callPc, callArgs>>

\* the list is returned
ProcessReturn ==
  /\ callPc = "ProcessNESROMs"
  /\ callResult.index = Len(callResult.testRomList)
  /\ callPc' = "returned"
  /\ UNCHANGED <<nesVars, matchVars, callArgs, callResult>>

NextProcess == ProcessNext \/ ProcessReturn

SpecProcess == InitProcess /\ [][NextProcess]_vars

\* the positions of the observed records that were matched and updated
RECURSIVE ProcessedOf(_, _)
ProcessedOf(outcomes, index) ==
  IF index > Len(outcomes) THEN <<>>
  ELSE (IF outcomes[index].matchErr = "" /\ outcomes[index].updateErr = ""
        THEN <<index>> ELSE <<>>)
         \o ProcessedOf(outcomes, index + 1)

\* a turn of the loop
ListStep == callPc = "ProcessNESROMs" /\ callResult'.index = callResult.index + 1

\* C28: ProcessNESROMs returns, in the order of the list, the observed
\* records that were matched and updated; a record that was not matched or
\* not updated is as it was, and so is every template of the library.
C28_ProcessedList ==
  /\ [](callPc \in {"ProcessNESROMs", "returned"}
          => /\ callResult.returnRomList = ProcessedOf(callResult.outcomes, 1)
             /\ callResult.heap = RecordTemplateHeap)
  /\ [][ListStep
          => /\ (matchErr' # "" \/ updateErr' # "")
                  => callResult'.testRomList = callResult.testRomList
             /\ \A i \in DOMAIN callResult.testRomList :
                  i # callResult.index + 1
                    => callResult'.testRomList[i] = callResult.testRomList[i]]_vars

\* a list of two records was processed: the first one was matched and could
\* not be updated, the second one was updated with a template and truncated,
\* and the list that is returned holds the second one
C28_OneOfTwoReturned ==
  /\ callPc = "returned"
  /\ Len(callArgs) = 2
  /\ callResult.outcomes[1].matchErr = ""
  /\ callResult.outcomes[1].updateErr # ""
  /\ callResult.returnRomList = <<2>>
  /\ callResult.testRomList[2] # callArgs[2]
  /\ matchOpts.truncateRoms

-----------------------------------------------------------------------------
(* FileTools/XMLData.go: MarshalXMLFromROMMap and UnmarshalXMLToROMMap, the *)
(* NES 2.0 arm of both loops                                                *)

\* strings.ToLower of a text of hexadecimal digits
ToLower(str) == [i \in 1..Len(str) |-> IF str[i] >= 65 /\ str[i] <= 90 THEN str[i] + 32 ELSE str[i]]

\* the value of one hexadecimal digit, -1 for any other character
fromHexChar(c) ==
  IF c >= 48 /\ c <= 57 THEN c - 48
  ELSE IF c >= 97 /\ c <= 102 THEN c - 87
  ELSE IF c >= 65 /\ c <= 70 THEN c - 55
  ELSE -1

\* hex.DecodeString: the bytes of a text of hexadecimal digits, or an error
DecodeString(text) ==
  IF Len(text) % 2 = 1 \/ \E i \in 1..Len(text) : fromHexChar(text[i]) < 0
  THEN [bytes |-> <<>>, err |-> "encoding/hex: invalid text"]
  ELSE [bytes |-> [i \in 1..(Len(text) \div 2) |->
                     16 * fromHexChar(text[2 * i - 1]) + fromHexChar(text[2 * i])],
        err |-> ""]

\* binary.BigEndian.PutUint16 and strings.ToUpper(hex.EncodeToString(..))
HexOfSum16(v) == HexOfBytes(<<v \div 256, v % 256>>)

\* the four bytes of a digest, the high byte first, as upper-case digits
HexOfDigest(d) == HexOfBytes(<<d[2] \div 256, d[2] % 256, d[3] \div 256, d[3] % 256>>)

\* a sum attribute read back: hex.DecodeString of the lower-case text and
\* binary.BigEndian.Uint16; a text that does not decode leaves the field alone
Sum16OfHex(text, old) ==
  IF DecodeString(ToLower(text)).err # "" THEN old
  ELSE 256 * DecodeString(ToLower(text)).bytes[1] + DecodeString(ToLower(text)).bytes[2]

\* a digest attribute read back into a field of the algorithm
DigestOfHex(text, alg) ==
  IF DecodeString(ToLower(text)).err # "" THEN ZeroDigest(alg)
  ELSE LET b == DecodeString(ToLower(text)).bytes
           at(i) == IF i <= Len(b) THEN b[i] ELSE 0
       IN <<alg, 256 * at(1) + at(2), 256 * at(3) + at(4)>>

\* binary.BigEndian.Uint16 and Uint32 index their argument: a text that decodes
\* to fewer bytes makes them panic
ShortHex(text, n) ==
  DecodeString(ToLower(text)).err = "" /\ Len(DecodeString(ToLower(text)).bytes) < n

\* the attributes of a segment element that are written for every record
SegmentXML(sum16, crc32, md5, sha1, sha256) ==
  [Sum16 |-> HexOfSum16(sum16), Crc32 |-> HexOfDigest(crc32), Md5 |-> HexOfDigest(md5),
   Sha1 |-> HexOfDigest(sha1), Sha256 |-> HexOfDigest(sha256)]

\* the attributes of a segment element that was left as &NES20XMLFields{} has it
EmptySegmentXML == [Sum16 |-> <<>>, Crc32 |-> <<>>, Md5 |-> <<>>, Sha1 |-> <<>>, Sha256 |-> <<>>]

\* the trainer element
TrainerXML(nesRom, h, preserveTrainer) ==
  IF preserveTrainer /\ h.Trainer
  THEN [Value |-> TRUE,
        Size |-> IF LenB(nesRom.TrainerData) = TrainerSize THEN TrainerSize ELSE 0,
        Hashes |-> SegmentXML(h.TrainerSum16, h.TrainerCRC32, h.TrainerMD5,
                              h.TrainerSHA1, h.TrainerSHA256)]
  ELSE [Value |-> FALSE, Size |-> 0, Hashes |-> EmptySegmentXML]

\* the relative path attribute: a leading separator is cut off
RelativePathXML(nesRom, enableOrganization) ==
  IF ~enableOrganization THEN <<>>
  ELSE IF nesRom.RelativePath[1] = 47 THEN Tail(nesRom.RelativePath)
  ELSE nesRom.RelativePath

\* the rom element MarshalXMLFromROMMap builds from a record with an NES 2.0
\* header
XMLROMOf(nesRom, h, preserveTrainer, enableOrganization) ==
  [Name |-> nesRom.Name, Size |-> nesRom.Size,
   Crc32 |-> HexOfDigest(nesRom.CRC32), Md5 |-> HexOfDigest(nesRom.MD5),
   Sha1 |-> HexOfDigest(nesRom.SHA1), Sha256 |-> HexOfDigest(nesRom.SHA256),
   RelativePath |-> RelativePathXML(nesRom, enableOrganization),
   TrainerData |-> IF preserveTrainer /\ h.Trainer /\ LenB(nesRom.TrainerData) = TrainerSize
                   THEN HexOfBytes(nesRom.TrainerData) ELSE <<>>,
   Trainer |-> TrainerXML(nesRom, h, preserveTrainer),
   Prgrom |-> [Size |-> IF h.PRGROMSize > 0 THEN h.PRGROMSize ELSE 0,
               SizeExponent |-> IF h.PRGROMSize > 0 THEN 0 ELSE h.PRGROMSizeExponent,
               SizeMultiplier |-> IF h.PRGROMSize > 0 THEN 0 ELSE h.PRGROMSizeMultiplier,
               Hashes |-> SegmentXML(h.PRGROMSum16, h.PRGROMCRC32, h.PRGROMMD5,
                                     h.PRGROMSHA1, h.PRGROMSHA256)],
   Chrrom |-> [Size |-> IF h.CHRROMSize > 0 THEN h.CHRROMSize ELSE 0,
               SizeExponent |-> IF h.CHRROMSize = 0 /\ h.CHRROMSizeExponent > 0
                                THEN h.CHRROMSizeExponent ELSE 0,
               SizeMultiplier |-> IF h.CHRROMSize = 0 /\ h.CHRROMSizeExponent > 0
                                  THEN h.CHRROMSizeMultiplier ELSE 0,
               Hashes |-> SegmentXML(h.CHRROMSum16, h.CHRROMCRC32, h.CHRROMMD5,
                                     h.CHRROMSHA1, h.CHRROMSHA256)],
   Prgram |-> h.PRGRAMSize, Prgnvram |-> h.PRGNVRAMSize,
   Chrram |-> h.CHRRAMSize, Chrnvram |-> h.CHRNVRAMSize,
   MirroringType |-> h.MirroringType, Battery |-> h.Battery, FourScreen |-> h.FourScreen,
   ConsoleType |-> h.ConsoleType, Mapper |-> h.Mapper, SubMapper |-> h.SubMapper,
   CpuPpuTiming |-> h.CPUPPUTiming, VsHardwareType |-> h.VsHardwareType,
   VsPpuType |-> h.VsPPUType, ExtendedConsoleType |-> h.ExtendedConsoleType,
   DefaultExpansion |-> h.DefaultExpansion,
   MiscRoms |-> [Value |-> h.MiscROMs,
                 Size |-> IF h.MiscROMs > 0 THEN h.MiscROMCalculatedSize ELSE 0,
                 Hashes |-> IF h.MiscROMs > 0
                            THEN SegmentXML(h.MiscROMSum16, h.MiscROMCRC32, h.MiscROMMD5,
                                            h.MiscROMSHA1, h.MiscROMSHA256)
                            ELSE EmptySegmentXML]]

\* MarshalXMLFromROMMap on a map of one record with an NES 2.0 header:
\* tempRelativePath[0] of an empty path is an index out of range
MarshalXMLFromROMMap(nesRom, preserveTrainer, enableOrganization) ==
  IF enableOrganization /\ nesRom.RelativePath = <<>>
  THEN [xml |-> <<>>, err |-> "panic: index out of range"]
  ELSE [xml |-> XMLROMOf(nesRom, nesRom.Header20, preserveTrainer, enableOrganization),
        err |-> ""]

\* the size fields and the segment hashes read from the Prgrom and Chrrom
\* elements, and the fields that are copied
XMLHeader(x) ==
  [NewNES20Header EXCEPT
     !.PRGROMSize = IF x.Prgrom.Size > 0 THEN x.Prgrom.Size ELSE 0,
     !.PRGROMSizeExponent = IF x.Prgrom.Size > 0 THEN 0 ELSE x.Prgrom.SizeExponent,
     !.PRGROMSizeMultiplier = IF x.Prgrom.Size > 0 THEN 0 ELSE x.Prgrom.SizeMultiplier,
     !.PRGROMSum16 = Sum16OfHex(x.Prgrom.Hashes.Sum16, 0),
     !.PRGROMCRC32 = DigestOfHex(x.Prgrom.Hashes.Crc32, "CRC32"),
     !.PRGROMMD5 = DigestOfHex(x.Prgrom.Hashes.Md5, "MD5"),
     !.PRGROMSHA1 = DigestOfHex(x.Prgrom.Hashes.Sha1, "SHA1"),
     !.PRGROMSHA256 = DigestOfHex(x.Prgrom.Hashes.Sha256, "SHA256"),
     !.CHRROMSize = IF x.Chrrom.Size > 0 THEN x.Chrrom.Size ELSE 0,
     !.CHRROMSizeExponent = IF x.Chrrom.Size = 0 /\ x.Chrrom.SizeExponent > 0
                            THEN x.Chrrom.SizeExponent ELSE 0,
     !.CHRROMSizeMultiplier = IF x.Chrrom.Size = 0 /\ x.Chrrom.SizeExponent > 0
                              THEN x.Chrrom.SizeMultiplier ELSE 0,
     !.CHRROMSum16 = Sum16OfHex(x.Chrrom.Hashes.Sum16, 0),
     !.CHRROMCRC32 = DigestOfHex(x.Chrrom.Hashes.Crc32, "CRC32"),
     !.CHRROMMD5 = DigestOfHex(x.Chrrom.Hashes.Md5, "MD5"),
     !.CHRROMSHA1 = DigestOfHex(x.Chrrom.Hashes.Sha1, "SHA1"),
     !.CHRROMSHA256 = DigestOfHex(x.Chrrom.Hashes.Sha256, "SHA256"),
     !.PRGRAMSize = x.Prgram, !.PRGNVRAMSize = x.Prgnvram,
     !.CHRRAMSize = x.Chrram, !.CHRNVRAMSize = x.Chrnvram,
     !.MirroringType = x.MirroringType, !.Battery = x.Battery,
     !.FourScreen = x.FourScreen, !.ConsoleType = x.ConsoleType,
     !.Mapper = x.Mapper, !.SubMapper = x.SubMapper,
     !.CPUPPUTiming = x.CpuPpuTiming, !.VsHardwareType = x.VsHardwareType,
     !.VsPPUType = x.VsPpuType, !.ExtendedConsoleType = x.ExtendedConsoleType,
     !.MiscROMs = x.MiscRoms.Value, !.DefaultExpansion = x.DefaultExpansion]

\* the record before the call of UpdateSizes: the whole-image hashes, the name,
\* the size, the relative path and the header
XMLRecord(x, enableOrganization) ==
  [NewNESROM EXCEPT
     !.CRC32 = DigestOfHex(x.Crc32, "CRC32"), !.MD5 = DigestOfHex(x.Md5, "MD5"),
     !.SHA1 = DigestOfHex(x.Sha1, "SHA1"), !.SHA256 = DigestOfHex(x.Sha256, "SHA256"),
     !.Name = x.Name, !.Size = x.Size,
     !.RelativePath = IF enableOrganization
                      THEN Replace(Replace(x.RelativePath, <<47>>, <<47>>),
                                   <<38, 97, 109, 112, 59>>, <<38>>)
                      ELSE @,
     !.Header20 = XMLHeader(x)]

\* the trainer fields, read after UpdateSizes
WithTrainerXML(nesRom, x, preserveTrainer) ==
  IF preserveTrainer /\ x.Trainer.Value
  THEN [nesRom EXCEPT
          !.Header20.Trainer = TRUE,
          !.Header20.TrainerSum16 = Sum16OfHex(x.Trainer.Hashes.Sum16, @),
          !.Header20.TrainerCRC32 = DigestOfHex(x.Trainer.Hashes.Crc32, "CRC32"),
          !.Header20.TrainerMD5 = DigestOfHex(x.Trainer.Hashes.Md5, "MD5"),
          !.Header20.TrainerSHA1 = DigestOfHex(x.Trainer.Hashes.Sha1, "SHA1"),
          !.Header20.TrainerSHA256 = DigestOfHex(x.Trainer.Hashes.Sha256, "SHA256"),
          !.Header20.TrainerCalculatedSize =
             IF Len(x.TrainerData) = 2 * TrainerSize THEN TrainerSize ELSE @,
          !.TrainerData =
             IF Len(x.TrainerData) = 2 * TrainerSize
                /\ DecodeString(ToLower(x.TrainerData)).err = ""
             THEN DecodeString(ToLower(x.TrainerData)).bytes ELSE @]
  ELSE [nesRom EXCEPT !.Header20.Trainer = FALSE, !.Header20.TrainerCalculatedSize = 0]

\* the miscellaneous ROM fields, read last
WithMiscXML(nesRom, x) ==
  IF x.MiscRoms.Value > 0
  THEN [nesRom EXCEPT
          !.Header20.MiscROMs = x.MiscRoms.Value,
          !.Header20.MiscROMCalculatedSize = x.MiscRoms.Size,
          !.Header20.MiscROMSum16 = Sum16OfHex(x.MiscRoms.Hashes.Sum16, @),
          !.Header20.MiscROMCRC32 = DigestOfHex(x.MiscRoms.Hashes.Crc32, "CRC32"),
          !.Header20.MiscROMMD5 = DigestOfHex(x.MiscRoms.Hashes.Md5, "MD5"),
          !.Header20.MiscROMSHA1 = DigestOfHex(x.MiscRoms.Hashes.Sha1, "SHA1"),
          !.Header20.MiscROMSHA256 = DigestOfHex(x.MiscRoms.Hashes.Sha256, "SHA256")]
  ELSE [nesRom EXCEPT !.Header20.MiscROMs = 0, !.Header20.MiscROMCalculatedSize = 0]

\* the sum attributes that are read and decode to fewer than two bytes
ShortSums(x, preserveTrainer) ==
  \/ ShortHex(x.Prgrom.Hashes.Sum16, 2)
  \/ ShortHex(x.Chrrom.Hashes.Sum16, 2)
  \/ preserveTrainer /\ x.Trainer.Value /\ ShortHex(x.Trainer.Hashes.Sum16, 2)
  \/ x.MiscRoms.Value > 0 /\ ShortHex(x.MiscRoms.Hashes.Sum16, 2)

\* UnmarshalXMLToROMMap on a document of one rom element with an NES 2.0
\* header: the record of the map it returns
UnmarshalXMLToROMMap(x, preserveTrainer, enableOrganization) ==
  IF ShortSums(x, preserveTrainer)
  THEN [rom |-> NilROM, err |-> "panic: index out of range"]
  ELSE [rom |-> WithMiscXML(
                  WithTrainerXML(
                    UpdateSizes(XMLRecord(x, enableOrganization),
                                PRG_CANONICAL_SIZE_FACTORED, CHR_CANONICAL_SIZE_FACTORED),
                    x, preserveTrainer),
                  x),
        err |-> ""]

-----------------------------------------------------------------------------
(* The interchange round trip: a file is decoded, the record is marshalled, *)
(* the document is unmarshalled with the same flags                         *)

\* the directories a decoded file is found in, relative to the base path
XMLLocations == {<<>>, <<97>>, <<47, 97, 47, 98>>}

InitXML ==
  /\ IdleMatch
  /\ nesPc = "start"
  /\ inputFile \in GoodNESFiles
  /\ nesFlags \in [enableInes : {FALSE}, preserveTrainer : BOOLEAN, truncateRom : {FALSE}]
  /\ romData = NilROM
  /\ decodeErr = ""
  /\ romBytes = NilBytes
  /\ encodeErr = ""
  /\ callPc = "idle"
  /\ callArgs \in [enableOrganization : BOOLEAN, relativeLocation : XMLLocations]
  /\ callResult = <<>>

\* DecodeNESROM: the file becomes a record or an error
DecodeXML ==
  /\ nesPc = "start"
  /\ LET r == DecodeNESROM(inputFile, nesFlags.enableInes, nesFlags.preserveTrainer,
                           callArgs.relativeLocation)
     IN /\ romData' = r.rom
        /\ decodeErr' = r.err
        /\ callPc' = IF r.err = "" /\ r.rom.Header20 # NilHeader
                     THEN "MarshalXMLFromROMMap" ELSE "returned"
  /\ nesPc' = "decoded"
  /\ UNCHANGED <<inputFile, nesFlags, romBytes, encodeErr, callArgs, callResult, matchVars>>

\* MarshalXMLFromROMMap on the map of the decoded record
MarshalXML ==
  /\ callPc = "MarshalXMLFromROMMap"
  /\ LET r == MarshalXMLFromROMMap(romData, nesFlags.preserveTrainer,
                                   callArgs.enableOrganization)
     IN /\ callResult' = [xml |-> r.xml, rom |-> NilROM, err |-> r.err]
        /\ callPc' = IF r.err = "" THEN "UnmarshalXMLToROMMap" ELSE "panicked"
  /\ UNCHANGED <<nesVars, callArgs, matchVars>>

\* UnmarshalXMLToROMMap on the document
UnmarshalXML ==
  /\ callPc = "UnmarshalXMLToROMMap"
  /\ LET r == UnmarshalXMLToROMMap(callResult.xml, nesFlags.preserveTrainer,
                                   callArgs.enableOrganization)
     IN /\ callResult' = [callResult EXCEPT !.rom = r.rom, !.err = r.err]
        /\ callPc' = IF r.err = "" THEN "unmarshalled" ELSE "panicked"
  /\ UNCHANGED <<nesVars, callArgs, matchVars>>

NextXML ==
  \/ DecodeXML
  \/ MarshalXML
  \/ UnmarshalXML

SpecXML == InitXML /\ [][NextXML]_vars

-----------------------------------------------------------------------------
(* The interchange round trip of a record with an NES 2.0 header            *)

\* the round trip has returned a record
Unmarshalled == callPc = "unmarshalled"

\* the whole-image hashes of a record
WholeHashesOf(nesRom) == <<nesRom.CRC32, nesRom.MD5, nesRom.SHA1, nesRom.SHA256>>

\* the header fields and hashes of the returned record are those of the
\* decoded record
SameHeaderAndHashes ==
  /\ callResult.rom.Header20 = romData.Header20
  /\ WholeHashesOf(callResult.rom) = WholeHashesOf(romData)

\* C10 as the specification states it: for every NES 2.0 record produced by
\* DecodeNESROM, marshalling it and unmarshalling the document with the same
\* flags returns a record with identical header fields (linear counts,
\* exponents, multipliers, calculated byte sizes, RAM exponents, flags, mapper,
\* submapper, console fields) and identical whole-image and per-segment hashes.
C10_RoundTrip == Unmarshalled => SameHeaderAndHashes

\* a file of six PRG bytes in exponent form without CHR: the decoded record has
\* the CHR size 0, the returned record the CHR size 1
C10_NoCHRSizeOne ==
  /\ Unmarshalled
  /\ inputFile = MkNESFile(SmallPRG, NoCHR, FALSE, 0, PlainProfile)
  /\ romData.Header20.CHRROMCalculatedSize = 0
  /\ callResult.rom.Header20.CHRROMCalculatedSize = 1
  /\ \A f \in DOMAIN romData.Header20 :
        f # "CHRROMCalculatedSize" => callResult.rom.Header20[f] = romData.Header20[f]

\* the fields the document carries for every record are read back unchanged:
\* the size fields as written, the RAM exponents, flags, mapper, submapper,
\* console fields, and the hashes of the image, PRG and CHR
C10_CarriedFields ==
  Unmarshalled =>
    /\ WholeHashesOf(callResult.rom) = WholeHashesOf(romData)
    /\ \A f \in {"PRGROMSize", "PRGROMSizeExponent", "PRGROMSizeMultiplier", "CHRROMSize",
                 "PRGROMSum16", "PRGROMCRC32", "PRGROMMD5", "PRGROMSHA1", "PRGROMSHA256",
                 "CHRROMSum16", "CHRROMCRC32", "CHRROMMD5", "CHRROMSHA1", "CHRROMSHA256",
                 "PRGRAMSize", "PRGNVRAMSize", "CHRRAMSize", "CHRNVRAMSize",
                 "MirroringType", "Battery", "FourScreen", "ConsoleType", "Mapper",
                 "SubMapper", "CPUPPUTiming", "VsHardwareType", "VsPPUType",
                 "ExtendedConsoleType", "MiscROMs", "DefaultExpansion"} :
         callResult.rom.Header20[f] = romData.Header20[f]

\* the calculated sizes of the returned record are those of the exponent form
\* it carries, whatever the decoded record held: 1 for a linear block count
C10_FactoredSizes ==
  Unmarshalled =>
    /\ callResult.rom.Header20.PRGROMCalculatedSize =
         U64ToInt(ExponentSize(callResult.rom.Header20.PRGROMSizeExponent,
                               callResult.rom.Header20.PRGROMSizeMultiplier))
    /\ callResult.rom.Header20.CHRROMCalculatedSize =
         U64ToInt(ExponentSize(callResult.rom.Header20.CHRROMSizeExponent,
                               callResult.rom.Header20.CHRROMSizeMultiplier))

\* a record with a linear PRG count has come back with another calculated size
C10_LinearSizeLost ==
  /\ Unmarshalled
  /\ romData.Header20.PRGROMSize > 0
  /\ romData.Header20.PRGROMCalculatedSize = romData.Header20.PRGROMSize * PRGBlockSize
  /\ callResult.rom.Header20.PRGROMCalculatedSize = 1

\* a CHR multiplier beside the exponent 0 has not come back
C10_MultiplierLost ==
  /\ Unmarshalled
  /\ romData.Header20.CHRROMSizeMultiplier > 0
  /\ callResult.rom.Header20.CHRROMSizeMultiplier = 0

\* a record without a relative path has stopped the marshaller
C10_MarshalPanics ==
  /\ callPc = "panicked"
  /\ romData.RelativePath = <<>>
  /\ callArgs.enableOrganization

\* a record has come back with every header field and hash
C10_SomeRoundTrip == Unmarshalled /\ SameHeaderAndHashes

====
